---- MODULE Spec2Model ----
(***************************************************************************)
(* Legacy dashboard alerts -> unified alerting: the forward migration      *)
(* (migration.Exec), its teardown (rmMigration.Exec) and the startup gate  *)
(* (AddMigration) of package ualert.                                       *)
(*                                                                         *)
(* Encoding.  UID strings are naturals, 0 is the empty string "".  A rule  *)
(* title / rule group is a sequence of tokens: <<name>> is the legacy      *)
(* name, <<name, uid>> is the name followed by " " and the rule's UID.     *)
(* A table is a set of rows, the alert table a sequence in load order.     *)
(* The migrator framework, the store's constraints and the helpers of      *)
(* migration that are called but not defined in the file are modelled      *)
(* from the specification text.                                            *)
(***************************************************************************)
EXTENDS Integers, Sequences, FiniteSets, TLC

VARIABLES
    optIn,        \* os.Getenv("UALERT_MIG") == "iDidBackup" in this process
    ngEnabled,    \* mg.Cfg.IsNgAlertEnabled() in this process
    log,          \* the migration log: the titles recorded as run
    store,        \* the committed relational store
    sess,         \* the store as seen by the running migration's session
    preStore,     \* the committed store when the current run began
    pc,           \* position of the process
    registered,   \* the migration AddMigration handed to the migrator
    runState,     \* NotStarted / Running / Committed / Aborted, registered run
    err,          \* the error Exec returned (NoErr = nil)
    failedAt,     \* history: the step of Exec at which a failure occurred
    commits,      \* number of migration runs committed so far
    dashAlerts,   \* Exec local: the loaded legacy alerts
    dsIDMap,      \* Exec local: [orgID, dataSourceId] -> UID
    dashIDMap,    \* Exec local: [orgID, dashboardId] -> dashUID
    i,            \* Exec local: index of the alert being processed
    da,           \* Exec local: the alert being processed
    dash,         \* Exec local: its dashboard
    folder,       \* Exec local: the destination folder
    permissions,  \* Exec local: the ACL read from the dashboard
    rule,         \* Exec local: the rule being inserted
    attempts,     \* history: rule inserts attempted for the current alert
    insertErr,    \* history: cause of the first failed rule insert, "" if none
    insertFaulted, \* history: a rule insert of this run hit a store fault
    deleted,      \* history: the tables the rollback has deleted from, in order
    peer,         \* a second process started with this one: none / waiting / acting
    firstRun,     \* history: how the first process's run ended, "" without a peer
    lastRun       \* history: the migration committed last, "faulted" once a run
                  \* aborted or a clear left its entry in the log

envVars == <<optIn, ngEnabled>>
dbVars == <<store, log>>
txVars == <<sess, preStore>>
procVars == <<pc, registered, runState, err, failedAt, commits>>
loadVars == <<dashAlerts, dsIDMap, dashIDMap>>
alertVars == <<i, da, dash, folder, permissions, rule, attempts, insertErr>>
histVars == <<insertFaulted, deleted>>
peerVars == <<peer, firstRun>>
runVars == <<lastRun>>
vars == <<envVars, dbVars, txVars, procVars, loadVars, alertVars, histVars, peerVars,
         runVars>>

----------------------------------------------------------------------------
(* Bounds of the model *)

MaxAlerts == 2
MaxCommits == 2

(* Program constants *)

FOLDER_CREATED_BY == -8
GENERAL_FOLDER == "General Alerting"
DASHBOARD_FOLDER == "Migrated"
migTitle == "move dashboard alerts to unified alerting"
\* variant: the rollback is recorded under the forward migration's title
rmMigTitleSame == migTitle
rmMigTitle == "remove unified alerting data"

EmptyUid == 0

----------------------------------------------------------------------------
(* Errors *)

NoErr == [type |-> "nil"]

RawError(cause) == [type |-> "error", cause |-> cause]

MigrationError(alertId, cause) ==
    [type |-> "MigrationError", AlertId |-> alertId, Err |-> cause]

----------------------------------------------------------------------------
(* Rows *)

NoDashboard ==
    [id |-> 0, orgId |-> 0, uid |-> EmptyUid, title |-> <<"">>, folderId |-> 0,
     hasAcl |-> FALSE, isFolder |-> FALSE, createdBy |-> 0]

NoAlert == [id |-> 0, orgId |-> 0, dashboardId |-> 0, name |-> "", dsId |-> 0,
            dashboardUID |-> EmptyUid]

NoRule == [uid |-> EmptyUid, orgId |-> 0, folderUID |-> EmptyUid, title |-> <<>>,
           ruleGroup |-> <<>>, alertId |-> 0, cond |-> EmptyUid]

SetMax(S) == IF S = {} THEN 0 ELSE CHOOSE x \in S : \A y \in S : y <= x

Lookup(m, k) == IF k \in DOMAIN m THEN m[k] ELSE EmptyUid

----------------------------------------------------------------------------
(* The store *)

Folder1(uid) ==
    [id |-> 1, orgId |-> 1, uid |-> uid, title |-> <<"Folder">>, folderId |-> 0,
     hasAcl |-> TRUE, isFolder |-> TRUE, createdBy |-> 1]

Dash2(folderId, hasAcl) ==
    [id |-> 2, orgId |-> 1, uid |-> 12, title |-> <<"Dash">>, folderId |-> folderId,
     hasAcl |-> hasAcl, isFolder |-> FALSE, createdBy |-> 1]

Dash3 ==
    [id |-> 3, orgId |-> 1, uid |-> 13, title |-> <<"Other">>, folderId |-> 0,
     hasAcl |-> FALSE, isFolder |-> FALSE, createdBy |-> 1]

Dash4 ==
    [id |-> 4, orgId |-> 2, uid |-> 14, title |-> <<"Dash">>, folderId |-> 0,
     hasAcl |-> FALSE, isFolder |-> FALSE, createdBy |-> 1]

AclRow(dashboardId, orgId, principal, permission) ==
    [dashboardId |-> dashboardId, orgId |-> orgId, principal |-> principal,
     permission |-> permission]

(* The legacy alerts a store may hold: on dashboard 2 of organisation 1 under
   two names, on dashboard 4 of organisation 2, on a dashboard (7) that has no
   row, and one whose datasource (9) has no row. *)
AlertChoice(orgId, dashboardId, name, dsId) ==
    [orgId |-> orgId, dashboardId |-> dashboardId, name |-> name, dsId |-> dsId]

AlertChoices ==
    {AlertChoice(1, 2, "a", 1), AlertChoice(1, 2, "b", 1), AlertChoice(2, 4, "a", 1),
     AlertChoice(1, 7, "a", 1), AlertChoice(1, 2, "a", 9)}

AlertSeqs == UNION {[1..n -> AlertChoices] : n \in 0..MaxAlerts}

AlertRow(k, c) ==
    [id |-> k, orgId |-> c.orgId, dashboardId |-> c.dashboardId, name |-> c.name,
     dsId |-> c.dsId, dashboardUID |-> EmptyUid]

InitStore(f1uid, folderId, hasAcl, cs) ==
    [dashboard |-> {Folder1(f1uid), Dash2(folderId, hasAcl), Dash3, Dash4},
     acl |-> {AclRow(1, 1, "team", 2)}
             \cup (IF hasAcl THEN {AclRow(2, 1, "user", 1)} ELSE {}),
     data_source |-> {[orgId |-> 1, id |-> 1, uid |-> 21],
                      [orgId |-> 2, id |-> 1, uid |-> 22]},
     alert |-> [k \in 1..Len(cs) |-> AlertRow(k, cs[k])],
     alert_rule |-> {},
     alert_rule_version |-> {},
     alert_configuration |-> {},
     alert_instance |-> {}]

NewId(s) == SetMax({d.id : d \in s.dashboard}) + 1

NewUid(s) == SetMax({d.uid : d \in s.dashboard} \cup {r.uid : r \in s.alert_rule}) + 1

Init ==
    /\ optIn = FALSE
    /\ ngEnabled = FALSE
    /\ log = {}
    /\ \E f1uid \in {11, EmptyUid}, folderId \in {0, 1, 3, 9}, hasAcl \in BOOLEAN,
          cs \in AlertSeqs :
            store = InitStore(f1uid, folderId, hasAcl, cs)
    /\ sess = store
    /\ preStore = store
    /\ pc = "down"
    /\ registered = "none"
    /\ runState = "NotStarted"
    /\ err = NoErr
    /\ failedAt = ""
    /\ commits = 0
    /\ dashAlerts = <<>>
    /\ dsIDMap = <<>>
    /\ dashIDMap = <<>>
    /\ i = 0
    /\ da = NoAlert
    /\ dash = NoDashboard
    /\ folder = NoDashboard
    /\ permissions = {}
    /\ rule = NoRule
    /\ attempts = 0
    /\ insertErr = ""
    /\ insertFaulted = FALSE
    /\ deleted = <<>>
    /\ peer = "none"
    /\ firstRun = ""
    /\ lastRun = ""

----------------------------------------------------------------------------
(* Startup: AddMigration *)

MigrationRun(logs) == migTitle \in logs

(* variant: the log entry of the forward migration is not consulted *)
RegisterForwardAgain(o, ng, run) == o /\ ng

(* variant: the feature toggle is not consulted *)
RegisterForwardNoToggle(o, ng, run) == o /\ ~run

RegisterForward(o, ng, run) == o /\ ng /\ ~run

(* variant: the rollback's case is the default of the switch *)
RegisterRollbackDefault(o, ng, run) == o

(* variant: the rollback does not ask for the forward migration's entry *)
RegisterRollbackNoLog(o, ng, run) == o /\ ~ng

RegisterRollback(o, ng, run) == o /\ ~ng /\ run

(* a startup that registered m tried to clear the other migration's entry
   and left it in the log *)
ClearFailed(after, m) ==
    \/ m = "fwd" /\ rmMigTitle \in after
    \/ m = "rm" /\ migTitle \in after

(* ClearMigrationEntry(title): a failed clear is logged and ignored *)
ClearMigrationEntry(logs, title, ok) == IF ok THEN logs \ {title} ELSE logs

AddMigration ==
    /\ pc = "down"
    /\ \E o \in BOOLEAN, ng \in BOOLEAN, logOk \in BOOLEAN, clearOk \in BOOLEAN :
        /\ optIn' = o
        /\ ngEnabled' = ng
        /\ IF o /\ ~logOk
             THEN \* GetMigrationLog failed: os.Exit(1)
                  /\ pc' = "down"
                  /\ registered' = "none"
                  /\ log' = log
             ELSE /\ pc' = "start"
                  /\ IF RegisterForward(o, ng, MigrationRun(log))
                       THEN /\ log' = ClearMigrationEntry(log, rmMigTitle, clearOk)
                            /\ registered' = "fwd"
                       ELSE IF RegisterRollback(o, ng, MigrationRun(log))
                         THEN /\ log' = ClearMigrationEntry(log, migTitle, clearOk)
                              /\ registered' = "rm"
                         ELSE /\ log' = log
                              /\ registered' = "none"
    /\ runState' = "NotStarted"
    /\ err' = NoErr
    /\ failedAt' = ""
    /\ preStore' = store
    /\ insertFaulted' = FALSE
    /\ deleted' = <<>>
    /\ peer' = "none"
    /\ firstRun' = ""
    /\ lastRun' = IF ClearFailed(log', registered') THEN "faulted" ELSE lastRun
    /\ UNCHANGED <<store, sess, commits, loadVars, alertVars>>

----------------------------------------------------------------------------
(* The migrator: runs the registered migration, unless the log has its
   title, in one transaction; records it in the log when it succeeds. *)

(* variant: the forward migration too is registered as rmMigTitle *)
TitleOfRollbackOnly(m) == rmMigTitle

(* variant: each migration is registered under the other's title *)
TitleOfSwapped(m) == IF m = "fwd" THEN rmMigTitle ELSE migTitle

TitleOf(m) == IF m = "fwd" THEN migTitle ELSE rmMigTitle

MigratorSkip ==
    /\ UNCHANGED <<histVars, peerVars, runVars>>
    /\ pc = "start"
    /\ registered = "none" \/ TitleOf(registered) \in log
    /\ pc' = "up"
    /\ UNCHANGED <<envVars, dbVars, txVars, registered, runState, err, failedAt,
                   commits, loadVars, alertVars>>

BeginForward ==
    /\ UNCHANGED <<histVars, peerVars, runVars>>
    /\ pc = "start"
    /\ registered = "fwd"
    /\ migTitle \notin log
    /\ commits < MaxCommits
    /\ sess' = store
    /\ preStore' = store
    /\ runState' = "Running"
    /\ pc' = "slurp"
    /\ UNCHANGED <<envVars, dbVars, registered, err, failedAt, commits, loadVars,
                   alertVars>>

BeginRollback ==
    /\ UNCHANGED <<histVars, peerVars, runVars>>
    /\ pc = "start"
    /\ registered = "rm"
    /\ rmMigTitle \notin log
    /\ commits < MaxCommits
    /\ sess' = store
    /\ preStore' = store
    /\ runState' = "Running"
    /\ pc' = "rm_rule"
    /\ UNCHANGED <<envVars, dbVars, registered, err, failedAt, commits, loadVars,
                   alertVars>>

(* the locals of Exec are gone once it has returned *)
ExecReturned ==
    /\ dashAlerts' = <<>>
    /\ dsIDMap' = <<>>
    /\ dashIDMap' = <<>>
    /\ i' = 0
    /\ da' = NoAlert
    /\ dash' = NoDashboard
    /\ folder' = NoDashboard
    /\ permissions' = {}
    /\ rule' = NoRule
    /\ attempts' = 0
    /\ insertErr' = ""

CommitRun ==
    /\ UNCHANGED <<histVars, peerVars>>
    /\ lastRun' = IF lastRun = "faulted" THEN "faulted" ELSE registered
    /\ pc = "ret"
    /\ err = NoErr
    /\ store' = sess
    /\ log' = log \cup {TitleOf(registered)}
    /\ runState' = "Committed"
    /\ pc' = "up"
    /\ commits' = commits + 1
    /\ ExecReturned
    /\ UNCHANGED <<envVars, txVars, registered, err, failedAt>>

AbortRun ==
    /\ UNCHANGED <<histVars, peerVars>>
    /\ lastRun' = "faulted"
    /\ pc = "ret"
    /\ err # NoErr
    /\ sess' = store
    /\ runState' = "Aborted"
    /\ pc' = "down"
    /\ ExecReturned
    /\ UNCHANGED <<envVars, dbVars, preStore, registered, err, failedAt, commits>>

(* The running server: unified alerting writes its configuration and
   instance state while it is enabled. *)
NgAlertActivity ==
    /\ UNCHANGED <<histVars, peerVars, runVars>>
    /\ pc = "up"
    /\ ngEnabled
    /\ store.alert_configuration = {} \/ store.alert_instance = {}
    /\ store' = [store EXCEPT !.alert_configuration = {1}, !.alert_instance = {1}]
    /\ sess' = store'
    /\ UNCHANGED <<envVars, log, preStore, procVars, loadVars, alertVars>>

Shutdown ==
    /\ UNCHANGED <<histVars, peerVars, runVars>>
    /\ pc = "up"
    /\ pc' = "down"
    /\ optIn' = FALSE
    /\ ngEnabled' = FALSE
    /\ registered' = "none"
    /\ UNCHANGED <<dbVars, txVars, runState, err, failedAt, commits, loadVars,
                   alertVars>>

----------------------------------------------------------------------------
(* Helpers of migration *)

(* slurpDashAlerts: the legacy alerts, in load order *)
SlurpDashAlerts(s) == s.alert

(* slurpDSIDs: [orgID, dataSourceId] -> UID *)
SlurpDSIDs(s) ==
    [k \in {<<r.orgId, r.id>> : r \in s.data_source} |->
        (CHOOSE r \in s.data_source : r.orgId = k[1] /\ r.id = k[2]).uid]

(* slurpDashUIDs: [orgID, dashboardId] -> dashUID *)
SlurpDashUIDs(s) ==
    [k \in {<<d.orgId, d.id>> : d \in s.dashboard} |->
        (CHOOSE d \in s.dashboard : d.orgId = k[1] /\ d.id = k[2]).uid]

(* transConditions: maps the alert's datasource id through the map *)
TransConditions(a, m) ==
    IF <<a.orgId, a.dsId>> \in DOMAIN m
      THEN [ok |-> TRUE, cond |-> m[<<a.orgId, a.dsId>>]]
      ELSE [ok |-> FALSE, cond |-> EmptyUid]

(* createFolder: a new folder row carrying the creator marker *)
NewFolder(s, orgId, title) ==
    [id |-> NewId(s), orgId |-> orgId, uid |-> NewUid(s), title |-> title,
     folderId |-> 0, hasAcl |-> FALSE, isFolder |-> TRUE,
     createdBy |-> FOLDER_CREATED_BY]

(* getMigrationString: derived from the alert's identity *)
GetMigrationString(a) == <<DASHBOARD_FOLDER, a.dashboardUID, a.id>>

(* getACL: the dashboard's effective ACL, its own entries and the entries
   inherited from its parent folder *)
GetACL(s, orgId, d) ==
    {[principal |-> r.principal, permission |-> r.permission] :
        r \in {x \in s.acl : /\ x.orgId = orgId
                             /\ \/ x.dashboardId = d.id
                                \/ d.folderId > 0 /\ x.dashboardId = d.folderId}}

(* setACL: one ACL row on the folder per entry *)
SetACL(s, orgId, folderId, entries) ==
    [s EXCEPT !.acl = @ \cup {AclRow(folderId, orgId, e.principal, e.permission) :
                                e \in entries}]

GeneralFolders(s, orgId) ==
    {d \in s.dashboard : d.orgId = orgId /\ d.title = <<GENERAL_FOLDER>>}

(* makeAlertRule: title and rule group are the legacy name, the UID is new *)
MakeAlertRule(s, cond, a, folderUID) ==
    [uid |-> NewUid(s), orgId |-> a.orgId, folderUID |-> folderUID,
     title |-> <<a.name>>, ruleGroup |-> <<a.name>>, alertId |-> a.id,
     cond |-> cond]

(* rule.makeVersion *)
MakeVersion(r) ==
    [ruleUID |-> r.uid, ruleOrgId |-> r.orgId, folderUID |-> r.folderUID,
     title |-> r.title, ruleGroup |-> r.ruleGroup, version |-> 1]

(* the unique indexes of alert_rule: (org, folder, title) and (org, uid) *)
UniqueViolation(rules, r) ==
    \E x \in rules :
        /\ x.orgId = r.orgId
        /\ \/ x.folderUID = r.folderUID /\ x.title = r.title
           \/ x.uid = r.uid

----------------------------------------------------------------------------
(* migration.Exec *)

fwdUnchanged ==
    <<envVars, dbVars, preStore, registered, runState, commits, deleted, peerVars,
      runVars>>

(* variant: Exec returns nil from a failed step *)
ReturnNil(e, step) ==
    /\ err' = NoErr
    /\ failedAt' = step
    /\ pc' = "ret"

(* return of Exec with a non-nil error, at step `step` *)
Return(e, step) ==
    /\ err' = e
    /\ failedAt' = step
    /\ pc' = "ret"

(* the loop header: the next alert, or return nil after the last *)
LoopTo(k, n) ==
    /\ i' = k
    /\ dash' = NoDashboard
    /\ folder' = NoDashboard
    /\ permissions' = {}
    /\ rule' = NoRule
    /\ attempts' = 0
    /\ insertErr' = ""
    /\ IF k <= n
         THEN /\ pc' = "translate"
              /\ UNCHANGED <<err, failedAt>>
         ELSE /\ pc' = "ret"
              /\ err' = NoErr
              /\ failedAt' = ""

Slurp ==
    /\ pc = "slurp"
    /\ \E ok \in BOOLEAN :
        IF ok
          THEN /\ dashAlerts' = SlurpDashAlerts(sess)
               /\ dsIDMap' = SlurpDSIDs(sess)
               /\ dashIDMap' = SlurpDashUIDs(sess)
               /\ da' = IF Len(sess.alert) >= 1 THEN sess.alert[1] ELSE NoAlert
               /\ LoopTo(1, Len(sess.alert))
          ELSE /\ Return(RawError("StoreError"), "slurp")
               /\ UNCHANGED <<loadVars, alertVars>>
    /\ UNCHANGED <<fwdUnchanged, insertFaulted, sess>>

TranslateError(a, cause) == RawError(cause)

(* variant: an alert whose condition cannot be translated is skipped *)
TranslateSkipOnError ==
    /\ pc = "translate"
    /\ LET t == TransConditions(da, dsIDMap) IN
        IF t.ok
          THEN /\ pc' = "getDash"
               /\ UNCHANGED <<err, failedAt, alertVars>>
          ELSE /\ da' = IF i + 1 <= Len(dashAlerts) THEN dashAlerts[i + 1] ELSE NoAlert
               /\ LoopTo(i + 1, Len(dashAlerts))
    /\ UNCHANGED <<fwdUnchanged, insertFaulted, sess, loadVars>>

(* variant: a condition that cannot be translated is translated again *)
TranslateAgainOnError ==
    /\ pc = "translate"
    /\ LET t == TransConditions(da, dsIDMap) IN
        IF t.ok
          THEN /\ pc' = "getDash"
               /\ UNCHANGED <<err, failedAt>>
          ELSE UNCHANGED <<pc, err, failedAt>>
    /\ UNCHANGED <<fwdUnchanged, insertFaulted, sess, loadVars, alertVars>>

Translate ==
    /\ pc = "translate"
    /\ LET t == TransConditions(da, dsIDMap) IN
        IF t.ok
          THEN /\ pc' = "getDash"
               /\ UNCHANGED <<err, failedAt>>
          ELSE Return(TranslateError(da, "UnresolvedDatasourceError"), "translate")
    /\ UNCHANGED <<fwdUnchanged, insertFaulted, sess, loadVars, alertVars>>

(* variant: the dashboard UID read from the map is written to the alert row *)
GetDashboardSavingUid ==
    /\ pc = "getDash"
    /\ LET uid == Lookup(dashIDMap, <<da.orgId, da.dashboardId>>)
           rows == {d \in sess.dashboard : d.orgId = da.orgId /\ d.uid = uid}
       IN
        /\ da' = [da EXCEPT !.dashboardUID = uid]
        /\ \E ok \in BOOLEAN :
            IF ~ok
              THEN /\ Return(MigrationError(da.id, "StoreError"), "getDash")
                   /\ UNCHANGED <<dash, sess>>
              ELSE IF rows = {}
                THEN /\ Return(MigrationError(da.id, "dashboard not found"), "getDash")
                     /\ UNCHANGED <<dash, sess>>
                ELSE /\ \E d \in rows : dash' = d
                     /\ sess' = [sess EXCEPT !.alert[i].dashboardUID = uid]
                     /\ pc' = "getFolder"
                     /\ UNCHANGED <<err, failedAt>>
    /\ UNCHANGED <<fwdUnchanged, insertFaulted, loadVars, i, folder, permissions, rule,
                   attempts, insertErr>>

GetDashboard ==
    /\ pc = "getDash"
    /\ LET uid == Lookup(dashIDMap, <<da.orgId, da.dashboardId>>)
           rows == {d \in sess.dashboard : d.orgId = da.orgId /\ d.uid = uid}
       IN
        /\ da' = [da EXCEPT !.dashboardUID = uid]
        /\ \E ok \in BOOLEAN :
            IF ~ok
              THEN /\ Return(MigrationError(da.id, "StoreError"), "getDash")
                   /\ dash' = dash
              ELSE IF rows = {}
                THEN /\ Return(MigrationError(da.id, "dashboard not found"), "getDash")
                     /\ dash' = dash
                ELSE /\ \E d \in rows : dash' = d
                     /\ pc' = "getFolder"
                     /\ UNCHANGED <<err, failedAt>>
    /\ UNCHANGED <<fwdUnchanged, insertFaulted, sess, loadVars, i, folder, permissions, rule,
                   attempts, insertErr>>

(* variant: the parent folder takes precedence over the dashboard's ACL *)
FolderCaseParentFirst(d) ==
    IF d.folderId > 0 THEN "checkUid"
    ELSE IF d.hasAcl THEN "createFolder"
    ELSE "general"

(* variant: the case of the parent folder is missing from the switch *)
FolderCaseNoParent(d) ==
    IF d.hasAcl THEN "createFolder"
    ELSE "general"

(* the switch that picks the destination folder *)
FolderCase(d) ==
    IF d.hasAcl THEN "createFolder"
    ELSE IF d.folderId > 0 THEN "checkUid"
    ELSE "general"

(* variant: the parent folder is looked up only when the dashboard has no
   ACL of its own *)
GetFolderUnlessAcl ==
    /\ pc = "getFolder"
    /\ IF dash.folderId > 0 /\ ~dash.hasAcl
         THEN LET rows == {d \in sess.dashboard : d.id = dash.folderId} IN
              \E ok \in BOOLEAN :
                IF ~ok
                  THEN /\ Return(MigrationError(da.id, "StoreError"), "getFolder")
                       /\ folder' = folder
                  ELSE IF rows = {}
                    THEN /\ Return(MigrationError(da.id, "folder not found"),
                                   "getFolder")
                         /\ folder' = folder
                    ELSE \E f \in rows :
                          /\ folder' = f
                          /\ IF ~f.isFolder
                               THEN Return(MigrationError(da.id, "not a folder"),
                                           "getFolder")
                               ELSE /\ pc' = FolderCase(dash)
                                    /\ UNCHANGED <<err, failedAt>>
         ELSE /\ folder' = NoDashboard
              /\ pc' = FolderCase(dash)
              /\ UNCHANGED <<err, failedAt>>
    /\ UNCHANGED <<fwdUnchanged, insertFaulted, sess, loadVars, i, da, dash, permissions, rule,
                   attempts, insertErr>>

(* variant: the record the folder id names is taken without asking whether
   it is a folder *)
GetFolderAnyRecord ==
    /\ pc = "getFolder"
    /\ IF dash.folderId > 0
         THEN LET rows == {d \in sess.dashboard : d.id = dash.folderId} IN
              \E ok \in BOOLEAN :
                IF ~ok
                  THEN /\ Return(MigrationError(da.id, "StoreError"), "getFolder")
                       /\ folder' = folder
                  ELSE IF rows = {}
                    THEN /\ Return(MigrationError(da.id, "folder not found"),
                                   "getFolder")
                         /\ folder' = folder
                    ELSE \E f \in rows :
                          /\ folder' = f
                          /\ pc' = FolderCase(dash)
                          /\ UNCHANGED <<err, failedAt>>
         ELSE /\ folder' = NoDashboard
              /\ pc' = FolderCase(dash)
              /\ UNCHANGED <<err, failedAt>>
    /\ UNCHANGED <<fwdUnchanged, insertFaulted, sess, loadVars, i, da, dash, permissions, rule,
                   attempts, insertErr>>

GetFolder ==
    /\ pc = "getFolder"
    /\ IF dash.folderId > 0
         THEN LET rows == {d \in sess.dashboard : d.id = dash.folderId} IN
              \E ok \in BOOLEAN :
                IF ~ok
                  THEN /\ Return(MigrationError(da.id, "StoreError"), "getFolder")
                       /\ folder' = folder
                  ELSE IF rows = {}
                    THEN /\ Return(MigrationError(da.id, "folder not found"),
                                   "getFolder")
                         /\ folder' = folder
                    ELSE \E f \in rows :
                          /\ folder' = f
                          /\ IF ~f.isFolder
                               THEN Return(MigrationError(da.id, "not a folder"),
                                           "getFolder")
                               ELSE /\ pc' = FolderCase(dash)
                                    /\ UNCHANGED <<err, failedAt>>
         ELSE /\ folder' = NoDashboard
              /\ pc' = FolderCase(dash)
              /\ UNCHANGED <<err, failedAt>>
    /\ UNCHANGED <<fwdUnchanged, insertFaulted, sess, loadVars, i, da, dash, permissions, rule,
                   attempts, insertErr>>

CreateFolder ==
    /\ pc = "createFolder"
    /\ \E ok \in BOOLEAN :
        IF ok
          THEN LET f == NewFolder(sess, dash.orgId, GetMigrationString(da)) IN
               /\ sess' = [sess EXCEPT !.dashboard = @ \cup {f}]
               /\ folder' = f
               /\ pc' = "getACL"
               /\ UNCHANGED <<err, failedAt>>
          ELSE /\ Return(MigrationError(da.id, "StoreError"), "createFolder")
               /\ UNCHANGED <<sess, folder>>
    /\ UNCHANGED <<fwdUnchanged, insertFaulted, loadVars, i, da, dash, permissions, rule, attempts,
                   insertErr>>

GetPermissions ==
    /\ pc = "getACL"
    /\ \E ok \in BOOLEAN :
        IF ok
          THEN /\ permissions' = GetACL(sess, dash.orgId, dash)
               /\ pc' = "setACL"
               /\ UNCHANGED <<err, failedAt>>
          ELSE /\ Return(MigrationError(da.id, "StoreError"), "getACL")
               /\ UNCHANGED permissions
    /\ UNCHANGED <<fwdUnchanged, insertFaulted, sess, loadVars, i, da, dash, folder, rule, attempts,
                   insertErr>>

(* variant: the permissions are set on the dashboard, not on the folder *)
SetPermissionsOnDashboard ==
    /\ pc = "setACL"
    /\ \E ok \in BOOLEAN :
        IF ok
          THEN /\ sess' = SetACL(sess, dash.orgId, dash.id, permissions)
               /\ pc' = "checkUid"
               /\ UNCHANGED <<err, failedAt>>
          ELSE /\ Return(MigrationError(da.id, "StoreError"), "setACL")
               /\ UNCHANGED sess
    /\ UNCHANGED <<fwdUnchanged, insertFaulted, loadVars, alertVars>>

SetPermissions ==
    /\ pc = "setACL"
    /\ \E ok \in BOOLEAN :
        IF ok
          THEN /\ sess' = SetACL(sess, folder.orgId, folder.id, permissions)
               /\ pc' = "checkUid"
               /\ UNCHANGED <<err, failedAt>>
          ELSE /\ Return(MigrationError(da.id, "StoreError"), "setACL")
               /\ UNCHANGED sess
    /\ UNCHANGED <<fwdUnchanged, insertFaulted, loadVars, alertVars>>

(* variant: the General Alerting folder is created for every alert *)
GetOrCreateGeneralFolderAlwaysCreate ==
    /\ pc = "general"
    /\ \E ok \in BOOLEAN :
        IF ok
          THEN LET f == NewFolder(sess, dash.orgId, <<GENERAL_FOLDER>>) IN
               /\ sess' = [sess EXCEPT !.dashboard = @ \cup {f}]
               /\ folder' = f
               /\ pc' = "checkUid"
               /\ UNCHANGED <<err, failedAt>>
          ELSE /\ Return(MigrationError(da.id, "StoreError"), "general")
               /\ UNCHANGED <<sess, folder>>
    /\ UNCHANGED <<fwdUnchanged, insertFaulted, loadVars, i, da, dash, permissions, rule, attempts,
                   insertErr>>

(* variant: default permissions are assigned to the General Alerting folder *)
GetOrCreateGeneralFolderWithAcl ==
    /\ pc = "general"
    /\ \E ok \in BOOLEAN :
        IF ok
          THEN /\ IF GeneralFolders(sess, dash.orgId) # {}
                    THEN /\ \E f \in GeneralFolders(sess, dash.orgId) : folder' = f
                         /\ UNCHANGED sess
                    ELSE LET f == NewFolder(sess, dash.orgId, <<GENERAL_FOLDER>>) IN
                         /\ sess' = SetACL([sess EXCEPT !.dashboard = @ \cup {f}],
                                           f.orgId, f.id,
                                           {[principal |-> "viewer", permission |-> 1]})
                         /\ folder' = f
               /\ pc' = "checkUid"
               /\ UNCHANGED <<err, failedAt>>
          ELSE /\ Return(MigrationError(da.id, "StoreError"), "general")
               /\ UNCHANGED <<sess, folder>>
    /\ UNCHANGED <<fwdUnchanged, insertFaulted, loadVars, i, da, dash, permissions, rule, attempts,
                   insertErr>>

GetOrCreateGeneralFolder ==
    /\ pc = "general"
    /\ \E ok \in BOOLEAN :
        IF ok
          THEN /\ IF GeneralFolders(sess, dash.orgId) # {}
                    THEN /\ \E f \in GeneralFolders(sess, dash.orgId) : folder' = f
                         /\ UNCHANGED sess
                    ELSE LET f == NewFolder(sess, dash.orgId, <<GENERAL_FOLDER>>) IN
                         /\ sess' = [sess EXCEPT !.dashboard = @ \cup {f}]
                         /\ folder' = f
               /\ pc' = "checkUid"
               /\ UNCHANGED <<err, failedAt>>
          ELSE /\ Return(MigrationError(da.id, "StoreError"), "general")
               /\ UNCHANGED <<sess, folder>>
    /\ UNCHANGED <<fwdUnchanged, insertFaulted, loadVars, i, da, dash, permissions, rule, attempts,
                   insertErr>>

(* variant: the folder identifier is not checked *)
EmptyFolderUidUnchecked(f) == FALSE

EmptyFolderUid(f) == f.uid = EmptyUid

MakeRule ==
    /\ pc = "checkUid"
    /\ IF EmptyFolderUid(folder)
         THEN /\ Return(MigrationError(da.id, "empty folder identifier"), "checkUid")
              /\ rule' = rule
         ELSE \E ok \in BOOLEAN :
               IF ok
                 THEN /\ rule' = MakeAlertRule(sess, TransConditions(da, dsIDMap).cond,
                                               da, folder.uid)
                      /\ pc' = "insert"
                      /\ UNCHANGED <<err, failedAt>>
                 ELSE /\ Return(RawError("makeAlertRule"), "makeRule")
                      /\ rule' = rule
    /\ UNCHANGED <<fwdUnchanged, insertFaulted, sess, loadVars, i, da, dash, folder, permissions,
                   attempts, insertErr>>

(* variant: the rule group keeps the legacy name on the second attempt *)
SuffixedTitleOnly(r) == [r EXCEPT !.title = Append(@, r.uid)]

(* the title and rule group of the second attempt *)
Suffixed(r) ==
    [r EXCEPT !.title = Append(@, r.uid), !.ruleGroup = Append(@, r.uid)]

(* variant: the failed insert is not repeated after the rule was renamed *)
InsertRuleNoRetry ==
    /\ pc = "insert"
    /\ attempts' = attempts + 1
    /\ \E fault \in BOOLEAN :
        /\ insertFaulted' = (insertFaulted \/ fault)
        /\ IF ~fault /\ ~UniqueViolation(sess.alert_rule, rule)
             THEN /\ sess' = [sess EXCEPT !.alert_rule = @ \cup {rule}]
                  /\ pc' = "version"
                  /\ UNCHANGED <<rule, insertErr>>
             ELSE /\ insertErr' = IF fault THEN "StoreError"
                                   ELSE "UniqueConstraintError"
                  /\ rule' = Suffixed(rule)
                  /\ pc' = "version"
                  /\ UNCHANGED sess
    /\ UNCHANGED <<fwdUnchanged, err, failedAt, loadVars, i, da, dash, folder,
                   permissions>>

InsertRule ==
    /\ pc = "insert"
    /\ attempts' = attempts + 1
    /\ \E fault \in BOOLEAN :
        /\ insertFaulted' = (insertFaulted \/ fault)
        /\ IF ~fault /\ ~UniqueViolation(sess.alert_rule, rule)
             THEN /\ sess' = [sess EXCEPT !.alert_rule = @ \cup {rule}]
                  /\ pc' = "version"
                  /\ UNCHANGED <<rule, insertErr>>
             ELSE /\ insertErr' = IF fault THEN "StoreError"
                                   ELSE "UniqueConstraintError"
                  /\ rule' = Suffixed(rule)
                  /\ pc' = "retry"
                  /\ UNCHANGED sess
    /\ UNCHANGED <<fwdUnchanged, err, failedAt, loadVars, i, da, dash, folder,
                   permissions>>

RetryInsertRule ==
    /\ pc = "retry"
    /\ attempts' = attempts + 1
    /\ \E fault \in BOOLEAN :
        IF ~fault /\ ~UniqueViolation(sess.alert_rule, rule)
          THEN /\ sess' = [sess EXCEPT !.alert_rule = @ \cup {rule}]
               /\ pc' = "version"
               /\ UNCHANGED <<err, failedAt>>
          ELSE /\ Return(RawError(IF fault THEN "StoreError"
                                   ELSE "UniqueConstraintError"), "retry")
               /\ UNCHANGED sess
    /\ UNCHANGED <<fwdUnchanged, insertFaulted, loadVars, i, da, dash, folder, permissions, rule,
                   insertErr>>

(* variant: the failed version insert returns nil *)
VersionErrorNil(cause) == NoErr

VersionError(cause) == RawError(cause)

(* variant: the version is made from the rule as it was first built *)
InsertVersionOfFirstAttempt ==
    /\ pc = "version"
    /\ \E ok \in BOOLEAN :
        IF ok
          THEN /\ sess' = [sess EXCEPT !.alert_rule_version =
                             @ \cup {MakeVersion([rule EXCEPT !.title = <<da.name>>,
                                                              !.ruleGroup = <<da.name>>])}]
               /\ da' = IF i + 1 <= Len(dashAlerts) THEN dashAlerts[i + 1] ELSE NoAlert
               /\ LoopTo(i + 1, Len(dashAlerts))
          ELSE /\ Return(VersionError("StoreError"), "version")
               /\ UNCHANGED <<sess, alertVars>>
    /\ UNCHANGED <<fwdUnchanged, insertFaulted, loadVars>>

(* variant: the version is inserted only when the first rule insert succeeded *)
InsertVersionFirstTryOnly ==
    /\ pc = "version"
    /\ \E ok \in BOOLEAN :
        IF ok
          THEN /\ sess' = IF attempts = 1
                            THEN [sess EXCEPT !.alert_rule_version =
                                                @ \cup {MakeVersion(rule)}]
                            ELSE sess
               /\ da' = IF i + 1 <= Len(dashAlerts) THEN dashAlerts[i + 1] ELSE NoAlert
               /\ LoopTo(i + 1, Len(dashAlerts))
          ELSE /\ Return(RawError("StoreError"), "version")
               /\ UNCHANGED <<sess, alertVars>>
    /\ UNCHANGED <<fwdUnchanged, insertFaulted, loadVars>>

InsertVersion ==
    /\ pc = "version"
    /\ \E ok \in BOOLEAN :
        IF ok
          THEN /\ sess' = [sess EXCEPT !.alert_rule_version = @ \cup {MakeVersion(rule)}]
               /\ da' = IF i + 1 <= Len(dashAlerts) THEN dashAlerts[i + 1] ELSE NoAlert
               /\ LoopTo(i + 1, Len(dashAlerts))
          ELSE /\ Return(VersionError("StoreError"), "version")
               /\ UNCHANGED <<sess, alertVars>>
    /\ UNCHANGED <<fwdUnchanged, insertFaulted, loadVars>>

----------------------------------------------------------------------------
(* rmMigration.Exec *)

CreatedByMigration(s) == {d \in s.dashboard : d.createdBy = FOLDER_CREATED_BY}

rmUnchanged ==
    <<envVars, dbVars, preStore, registered, runState, commits, loadVars, alertVars,
      insertFaulted, peerVars, runVars>>

DelRules(s) == [s EXCEPT !.alert_rule = {}]

(* variant: the second statement names alert_rule again *)
DelVersionsWrongTable(s) == [s EXCEPT !.alert_rule = {}]

DelVersions(s) == [s EXCEPT !.alert_rule_version = {}]

(* variant: the third statement has no subquery *)
DelFolderACLsAll(s) == [s EXCEPT !.acl = {}]

DelFolderACLs(s) ==
    [s EXCEPT !.acl = {r \in @ : r.dashboardId \notin
                                    {d.id : d \in CreatedByMigration(s)}}]

(* variant: every folder is deleted, whoever created it *)
DelFoldersAll(s) == [s EXCEPT !.dashboard = {d \in @ : ~d.isFolder}]

DelFolders(s) == [s EXCEPT !.dashboard = @ \ CreatedByMigration(s)]

DelConfiguration(s) == [s EXCEPT !.alert_configuration = {}]

DelInstances(s) == [s EXCEPT !.alert_instance = {}]

(* rmMigration.Exec when every statement succeeds *)
RmExec(s) ==
    DelInstances(DelConfiguration(DelFolders(DelFolderACLs(DelVersions(DelRules(s))))))

RmDeleteRules ==
    /\ pc = "rm_rule"
    /\ \E ok \in BOOLEAN :
        IF ok
          THEN /\ sess' = DelRules(sess)
               /\ deleted' = Append(deleted, "alert_rule")
               /\ pc' = "rm_version"
               /\ UNCHANGED <<err, failedAt>>
          ELSE /\ Return(RawError("StoreError"), "rm_rule")
               /\ UNCHANGED <<sess, deleted>>
    /\ UNCHANGED rmUnchanged

(* variant: the error of the second statement is not looked at *)
RmDeleteVersionsIgnoringError ==
    /\ pc = "rm_version"
    /\ \E ok \in BOOLEAN :
        IF ok
          THEN /\ sess' = DelVersions(sess)
               /\ deleted' = Append(deleted, "alert_rule_version")
               /\ pc' = "rm_acl"
               /\ UNCHANGED <<err, failedAt>>
          ELSE /\ pc' = "rm_acl"
               /\ UNCHANGED <<sess, deleted, err, failedAt>>
    /\ UNCHANGED rmUnchanged

RmDeleteVersions ==
    /\ pc = "rm_version"
    /\ \E ok \in BOOLEAN :
        IF ok
          THEN /\ sess' = DelVersions(sess)
               /\ deleted' = Append(deleted, "alert_rule_version")
               /\ pc' = "rm_acl"
               /\ UNCHANGED <<err, failedAt>>
          ELSE /\ Return(RawError("StoreError"), "rm_version")
               /\ UNCHANGED <<sess, deleted>>
    /\ UNCHANGED rmUnchanged

RmDeleteACLs ==
    /\ pc = "rm_acl"
    /\ \E ok \in BOOLEAN :
        IF ok
          THEN /\ sess' = DelFolderACLs(sess)
               /\ deleted' = Append(deleted, "dashboard_acl")
               /\ pc' = "rm_folder"
               /\ UNCHANGED <<err, failedAt>>
          ELSE /\ Return(RawError("StoreError"), "rm_acl")
               /\ UNCHANGED <<sess, deleted>>
    /\ UNCHANGED rmUnchanged

RmDeleteFolders ==
    /\ pc = "rm_folder"
    /\ \E ok \in BOOLEAN :
        IF ok
          THEN /\ sess' = DelFolders(sess)
               /\ deleted' = Append(deleted, "dashboard")
               /\ pc' = "rm_config"
               /\ UNCHANGED <<err, failedAt>>
          ELSE /\ Return(RawError("StoreError"), "rm_folder")
               /\ UNCHANGED <<sess, deleted>>
    /\ UNCHANGED rmUnchanged

RmDeleteConfiguration ==
    /\ pc = "rm_config"
    /\ \E ok \in BOOLEAN :
        IF ok
          THEN /\ sess' = DelConfiguration(sess)
               /\ deleted' = Append(deleted, "alert_configuration")
               /\ pc' = "rm_instance"
               /\ UNCHANGED <<err, failedAt>>
          ELSE /\ Return(RawError("StoreError"), "rm_config")
               /\ UNCHANGED <<sess, deleted>>
    /\ UNCHANGED rmUnchanged

RmDeleteInstances ==
    /\ pc = "rm_instance"
    /\ \E ok \in BOOLEAN :
        IF ok
          THEN /\ sess' = DelInstances(sess)
               /\ deleted' = Append(deleted, "alert_instance")
               /\ pc' = "ret"
               /\ err' = NoErr
               /\ failedAt' = ""
          ELSE /\ Return(RawError("StoreError"), "rm_instance")
               /\ UNCHANGED <<sess, deleted>>
    /\ UNCHANGED rmUnchanged

----------------------------------------------------------------------------

Next ==
    \/ AddMigration
    \/ MigratorSkip
    \/ BeginForward
    \/ BeginRollback
    \/ CommitRun
    \/ AbortRun
    \/ NgAlertActivity
    \/ Shutdown
    \/ Slurp
    \/ Translate
    \/ GetDashboard
    \/ GetFolder
    \/ CreateFolder
    \/ GetPermissions
    \/ SetPermissions
    \/ GetOrCreateGeneralFolder
    \/ MakeRule
    \/ InsertRule
    \/ RetryInsertRule
    \/ InsertVersion
    \/ RmDeleteRules
    \/ RmDeleteVersions
    \/ RmDeleteACLs
    \/ RmDeleteFolders
    \/ RmDeleteConfiguration
    \/ RmDeleteInstances

Spec == Init /\ [][Next]_vars

----------------------------------------------------------------------------
(* Two processes started together against one store.  Each runs
   AddMigration on its own; the migrator's exclusive lock lets one
   migrator run at a time, so the second process's migrator starts when
   the first's has ended, and reads the log then.  The second process is
   followed when it registers the forward migration, with the flags of the
   first. *)

(* AddMigration in the second process, while the first waits to migrate *)
PeerAddMigration ==
    /\ pc = "start"
    /\ peer = "none"
    /\ RegisterForward(optIn, ngEnabled, MigrationRun(log))
    /\ \E clearOk \in BOOLEAN :
        log' = ClearMigrationEntry(log, rmMigTitle, clearOk)
    /\ peer' = "waiting"
    /\ lastRun' = IF ClearFailed(log', "fwd") THEN "faulted" ELSE lastRun
    /\ UNCHANGED <<envVars, store, txVars, procVars, loadVars, alertVars, histVars,
                   firstRun>>

(* the first process's migrator has ended and released the lock: the
   second process's migrator starts *)
PeerMigrates ==
    /\ peer = "waiting"
    /\ registered = "fwd"
    /\ \/ pc = "up"
       \/ pc = "down" /\ runState = "Aborted"
    /\ peer' = "acting"
    /\ firstRun' = runState
    /\ pc' = "start"
    /\ runState' = "NotStarted"
    /\ err' = NoErr
    /\ failedAt' = ""
    /\ preStore' = store
    /\ insertFaulted' = FALSE
    /\ deleted' = <<>>
    /\ UNCHANGED <<envVars, dbVars, sess, registered, commits, loadVars, alertVars,
                   runVars>>

ConcNext ==
    \/ Next
    \/ PeerAddMigration
    \/ PeerMigrates

ConcSpec == Init /\ [][ConcNext]_vars

----------------------------------------------------------------------------
(* Properties *)

Marked(s) == {d.id : d \in CreatedByMigration(s)}

NewRules == store.alert_rule \ preStore.alert_rule

NewVersions == store.alert_rule_version \ preStore.alert_rule_version

ForwardCommitted == registered = "fwd" /\ runState = "Committed"

RollbackCommitted == registered = "rm" /\ runState = "Committed"

AclEntries(s, dashboardId) ==
    {[principal |-> r.principal, permission |-> r.permission] :
        r \in {x \in s.acl : x.dashboardId = dashboardId}}

(* C1: when a step of the forward run failed while an alert was processed,
   the run ends Aborted and the committed store is the store as it was when
   the run began: no rule, version, folder or ACL row of the run remains. *)
C1_AbortLeavesNothing ==
    (registered = "fwd" /\ failedAt # "" /\ pc # "ret")
        => (runState = "Aborted" /\ store = preStore)

(* a run that had inserted a rule failed on the version insert and was
   rolled back *)
C1_Witness ==
    /\ registered = "fwd"
    /\ runState = "Aborted"
    /\ failedAt = "version"
    /\ store = preStore

(* C2: a startup that finds the forward migration's entry in the log while
   the toggle is enabled registers no migration, and no step taken while
   nothing is registered changes the alert rules. *)
C2_SecondStartupNoOp ==
    [][/\ (pc = "down" /\ migTitle \in log /\ ngEnabled') => registered' = "none"
       /\ registered' = "none" => store'.alert_rule = store.alert_rule]_vars

(* the second startup: opt-in set, toggle enabled, entry in the log, the
   migrated rules in the store, nothing registered *)
C2_Witness ==
    /\ pc = "start"
    /\ optIn
    /\ ngEnabled
    /\ migTitle \in log
    /\ registered = "none"
    /\ store.alert_rule # {}

(* C3: the forward migration is registered only by a startup whose opt-in
   flag is set, whose toggle is enabled and whose log has no forward entry;
   and the forward run enters Running only from such a registration. *)
C3_ForwardGate ==
    [][/\ (pc = "down" /\ registered' = "fwd")
            => (optIn' /\ ngEnabled' /\ migTitle \notin log)
       /\ (registered' = "fwd" /\ runState' = "Running" /\ runState # "Running")
            => (registered = "fwd" /\ optIn /\ ngEnabled /\ migTitle \notin log)]_vars

(* the forward run is running *)
C3_Witness ==
    /\ registered = "fwd"
    /\ runState = "Running"
    /\ optIn
    /\ ngEnabled
    /\ pc = "translate"

(* C4: once the rollback has committed, the rule, version, configuration
   and instance tables are empty, no dashboard row carries the creator
   marker and no ACL row belongs to a row that carried it. *)
C4_RoundTrip ==
    RollbackCommitted =>
        /\ store.alert_rule = {}
        /\ store.alert_rule_version = {}
        /\ store.alert_configuration = {}
        /\ store.alert_instance = {}
        /\ CreatedByMigration(store) = {}
        /\ \A r \in store.acl : r.dashboardId \notin Marked(preStore)

(* the rollback committed on a store that held migrated rules, versions,
   synthesized folders with ACL rows, configuration and instances *)
C4_Witness ==
    /\ RollbackCommitted
    /\ preStore.alert_rule # {}
    /\ preStore.alert_rule_version # {}
    /\ preStore.alert_configuration # {}
    /\ preStore.alert_instance # {}
    /\ \E r \in preStore.acl : r.dashboardId \in Marked(preStore)

(* C5: the rollback removes exactly the dashboard rows that carry the
   creator marker and the ACL rows of those rows; every other dashboard row
   and every other ACL row is as it was. *)
C5_RollbackFrame ==
    RollbackCommitted =>
        /\ store.dashboard = {d \in preStore.dashboard : d.createdBy # FOLDER_CREATED_BY}
        /\ store.acl = {r \in preStore.acl : r.dashboardId \notin Marked(preStore)}

(* the rollback removed synthesized folders and their ACL rows and kept the
   folder and the ACL rows that were there before *)
C5_Witness ==
    /\ RollbackCommitted
    /\ Marked(preStore) # {}
    /\ store.acl # preStore.acl
    /\ store.acl # {}
    /\ \E d \in store.dashboard : d.isFolder

(* C6: a committed forward run has inserted exactly one rule for each
   legacy alert: as many rules as alerts, and one per alert id. *)
C6_OneRulePerAlert ==
    ForwardCommitted =>
        /\ Cardinality(NewRules) = Len(store.alert)
        /\ \A k \in 1..Len(store.alert) :
              Cardinality({r \in NewRules : r.alertId = store.alert[k].id}) = 1

(* two alerts were migrated, one of them on the second insert attempt *)
C6_Witness ==
    /\ ForwardCommitted
    /\ Len(store.alert) = 2
    /\ Cardinality(NewRules) = 2
    /\ \E r \in NewRules : Len(r.title) = 2

(* C7: after a committed forward run every inserted rule has exactly one
   version, every inserted version is the version of an inserted rule, and
   no step of the running forward run removes or changes a version. *)
C7_VersionPerRule ==
    [][/\ ForwardCommitted' =>
            /\ \A r \in NewRules' :
                  Cardinality({v \in NewVersions' : v.ruleUID = r.uid
                                                    /\ v.ruleOrgId = r.orgId}) = 1
            /\ \A v \in NewVersions' :
                  \E r \in NewRules' : v.ruleUID = r.uid /\ v.ruleOrgId = r.orgId
       /\ (registered = "fwd" /\ runState = "Running" /\ runState' = "Running")
            => sess.alert_rule_version \subseteq sess'.alert_rule_version]_vars

(* a committed run with two rules, one of them inserted on the second
   attempt, and a version for each *)
C7_Witness ==
    /\ ForwardCommitted
    /\ Cardinality(NewRules) = 2
    /\ Cardinality(NewVersions) = 2
    /\ \E v \in NewVersions : Len(v.title) = 2

(* C8: no rule of the forward run has an empty folder UID, and when the
   destination folder has an empty UID the step returns the MigrationError
   of the alert with cause "empty folder identifier" and inserts nothing. *)
C8_FolderUidNotEmpty ==
    [][/\ (registered' = "fwd" /\ runState' \in {"Running", "Committed"})
            => \A r \in sess'.alert_rule \ preStore'.alert_rule :
                  r.folderUID # EmptyUid
       /\ (pc = "checkUid" /\ folder.uid = EmptyUid)
            => /\ pc' = "ret"
               /\ err' = MigrationError(da.id, "empty folder identifier")
               /\ sess' = sess]_vars

(* the run returned the error for an empty folder identifier on its second
   alert, after the rule of the first was inserted *)
C8_Witness ==
    /\ pc = "ret"
    /\ err = MigrationError(da.id, "empty folder identifier")
    /\ da.id = 2
    /\ sess.alert_rule # preStore.alert_rule

(* C9: the rule of an alert whose dashboard has an ACL goes to a folder
   synthesized for it, with or without a parent folder; the parent folder is
   used when there is no ACL and folderId > 0; the General Alerting folder
   when there is no ACL and folderId is 0. *)
C9_FolderPrecedence ==
    pc \in {"insert", "retry", "version"} =>
        /\ rule.folderUID = folder.uid
        /\ dash.hasAcl =>
              /\ folder.createdBy = FOLDER_CREATED_BY
              /\ folder.title = GetMigrationString(da)
              /\ folder \notin preStore.dashboard
        /\ (~dash.hasAcl /\ dash.folderId > 0) =>
              /\ folder.id = dash.folderId
              /\ folder \in preStore.dashboard
        /\ (~dash.hasAcl /\ dash.folderId = 0) => folder.title = <<GENERAL_FOLDER>>

(* a dashboard with an ACL and a parent folder got a synthesized folder *)
C9_Witness ==
    /\ pc = "insert"
    /\ dash.hasAcl
    /\ dash.folderId > 0
    /\ folder.createdBy = FOLDER_CREATED_BY

(* C10: after a committed forward run, for each alert whose dashboard has
   an ACL, the ACL entries of the folder that holds its rule are exactly the
   entries of the dashboard's effective ACL. *)
C10_AclCopied ==
    ForwardCommitted =>
        \A r \in NewRules :
            \A k \in 1..Len(store.alert) :
                \A d \in store.dashboard :
                    (/\ store.alert[k].id = r.alertId
                     /\ d.orgId = store.alert[k].orgId
                     /\ d.id = store.alert[k].dashboardId
                     /\ d.hasAcl)
                    => \A f \in store.dashboard :
                          (f.orgId = r.orgId /\ f.uid = r.folderUID)
                            => AclEntries(store, f.id) = GetACL(store, d.orgId, d)

(* a committed run copied an effective ACL of two entries, the dashboard's
   own and the one inherited from its parent folder *)
C10_Witness ==
    /\ ForwardCommitted
    /\ \E r \in NewRules :
        \E f \in store.dashboard :
            /\ f.uid = r.folderUID
            /\ f.createdBy = FOLDER_CREATED_BY
            /\ Cardinality(AclEntries(store, f.id)) = 2

AlertSteps ==
    {"translate", "getDash", "getFolder", "createFolder", "getACL", "setACL",
     "general", "checkUid", "insert", "retry", "version"}

ForwardRunning == registered = "fwd" /\ runState = "Running"

(* C11: for an alert whose dashboard has no ACL and folderId > 0, the rule
   carries the UID of the parent folder, a folder row that was in the store
   before the run, and no step taken for that alert adds a dashboard row or
   an ACL row. *)
C11_ParentFolderReused ==
    [][/\ (ForwardRunning /\ pc \in {"translate", "getDash", "getFolder"})
            => sess' = sess
       /\ (ForwardRunning /\ pc \in AlertSteps /\ dash # NoDashboard
              /\ ~dash.hasAcl /\ dash.folderId > 0)
            => /\ sess'.dashboard = sess.dashboard
               /\ sess'.acl = sess.acl
               /\ \A r \in sess'.alert_rule \ sess.alert_rule :
                     /\ r.alertId = da.id
                     /\ \E f \in preStore.dashboard :
                           /\ f.id = dash.folderId
                           /\ f.isFolder
                           /\ r.folderUID = f.uid]_vars

(* the rule of such an alert was inserted with the parent folder's UID *)
C11_Witness ==
    /\ ForwardRunning
    /\ pc = "version"
    /\ ~dash.hasAcl
    /\ dash.folderId = 1
    /\ rule \in sess.alert_rule
    /\ rule.folderUID = 11
    /\ sess.dashboard = preStore.dashboard
    /\ sess.acl = preStore.acl


(* the dashboard row of a legacy alert, as the run found it *)
DashboardOf(a) ==
    {d \in preStore.dashboard : d.orgId = a.orgId /\ d.id = a.dashboardId}

(* the legacy alerts whose dashboard lives at the root with no ACL of its own *)
RootAlerts ==
    {k \in 1..Len(preStore.alert) :
        \E d \in DashboardOf(preStore.alert[k]) : ~d.hasAcl /\ d.folderId = 0}

(* the General Alerting folders the run added *)
NewGeneralFolders ==
    {f \in store.dashboard \ preStore.dashboard : f.title = <<GENERAL_FOLDER>>}

(* the General Alerting folders the run found *)
GeneralFoldersBefore ==
    {f \in preStore.dashboard : f.title = <<GENERAL_FOLDER>>}

(* C12: after a committed forward run every organisation has at most one
   General Alerting folder, found or added by the run, the rule of every alert whose dashboard has
   folderId 0 and no ACL carries the UID of the General Alerting folder of
   the alert's organisation, so two such alerts of one organisation share
   the folder UID and two of different organisations do not. *)
C12_GeneralFolderOncePerOrg ==
    ForwardCommitted =>
        /\ \A f, g \in NewGeneralFolders \cup GeneralFoldersBefore :
              f.orgId = g.orgId => f = g
        /\ \A k \in RootAlerts :
              \A r \in NewRules :
                 r.alertId = preStore.alert[k].id =>
                    \E f \in NewGeneralFolders \cup GeneralFoldersBefore :
                       /\ f.orgId = preStore.alert[k].orgId
                       /\ r.folderUID = f.uid
        /\ \A k1, k2 \in RootAlerts :
              \A r1, r2 \in NewRules :
                 (r1.alertId = preStore.alert[k1].id
                    /\ r2.alertId = preStore.alert[k2].id)
                 => (r1.folderUID = r2.folderUID
                       <=> preStore.alert[k1].orgId = preStore.alert[k2].orgId)

(* two root alerts of organisation 1 were migrated into one General Alerting
   folder *)
C12_Witness ==
    /\ ForwardCommitted
    /\ RootAlerts = {1, 2}
    /\ preStore.alert[1].orgId = preStore.alert[2].orgId
    /\ Cardinality(NewRules) = 2
    /\ Cardinality(NewGeneralFolders) = 1
    /\ \A r \in NewRules : \E f \in NewGeneralFolders : r.folderUID = f.uid

(* two root alerts of different organisations were migrated *)
C12_TwoOrgs ==
    /\ ForwardCommitted
    /\ RootAlerts = {1, 2}
    /\ preStore.alert[1].orgId # preStore.alert[2].orgId
    /\ Cardinality(NewRules) = 2
    /\ Cardinality(NewGeneralFolders) = 2


(* C13: no step of the running forward run adds an ACL row for a General
   Alerting folder, and after a committed run every General Alerting folder
   the run added has no explicit ACL entry. *)
C13_NoAclOnGeneralFolder ==
    [][/\ ForwardRunning =>
            \A x \in sess'.acl \ sess.acl :
               \A f \in sess'.dashboard :
                  (f.id = x.dashboardId /\ f.orgId = x.orgId)
                     => f.title # <<GENERAL_FOLDER>>
       /\ ForwardCommitted' =>
            \A f \in NewGeneralFolders' : AclEntries(store', f.id) = {}]_vars

(* a committed run that added a General Alerting folder and a rule in it,
   for a dashboard whose organisation has ACL rows *)
C13_Witness ==
    /\ ForwardCommitted
    /\ \E f \in NewGeneralFolders :
          /\ AclEntries(store, f.id) = {}
          /\ \E r \in NewRules : r.folderUID = f.uid /\ r.orgId = f.orgId
          /\ \E x \in store.acl : x.orgId = f.orgId


(* C14: for each legacy alert the rule insert is attempted at most twice;
   the second attempt is reached only from a failed first attempt, with the
   same rule UID and with title and rule group each the legacy name followed
   by that UID; a second attempt that fails inserts nothing and the run ends
   Aborted with the store unchanged. *)
C14_BoundedRetry ==
    [][/\ attempts' \in 0..2
       /\ pc' = "retry" =>
            /\ pc = "insert" /\ attempts = 0 /\ attempts' = 1
            /\ insertErr' # ""
            /\ sess' = sess
            /\ rule \notin sess.alert_rule
            /\ rule'.uid = rule.uid
            /\ rule'.title = <<da.name, rule.uid>>
            /\ rule'.ruleGroup = <<da.name, rule.uid>>
            /\ rule' = [rule EXCEPT !.title = rule'.title,
                                    !.ruleGroup = rule'.ruleGroup]
       /\ pc = "retry" =>
            /\ attempts' = 2
            /\ \/ pc' = "version" /\ sess'.alert_rule = sess.alert_rule \cup {rule}
               \/ pc' = "ret" /\ failedAt' = "retry" /\ err' # NoErr /\ sess' = sess
       /\ (pc = "ret" /\ failedAt = "retry") =>
            runState' = "Aborted" /\ store' = store]_vars

(* the second attempt failed and the run is about to abort *)
C14_Witness ==
    /\ pc = "ret" /\ failedAt = "retry" /\ attempts = 2
    /\ err # NoErr
    /\ rule.title = <<da.name, rule.uid>>
    /\ rule.ruleGroup = <<da.name, rule.uid>>

(* the second attempt succeeded *)
C14_RetrySucceeded ==
    /\ pc = "version" /\ attempts = 2
    /\ rule \in sess.alert_rule
    /\ rule.ruleGroup = <<da.name, rule.uid>>


(* the pairs of rules a committed run inserted for two legacy alerts of one
   name, the first loaded before the second, in one organisation and folder *)
SameNamePairs ==
    {p \in NewRules \X NewRules :
        \E k1, k2 \in 1..Len(preStore.alert) :
           /\ k1 < k2
           /\ preStore.alert[k1].name = preStore.alert[k2].name
           /\ p[1].alertId = preStore.alert[k1].id
           /\ p[2].alertId = preStore.alert[k2].id
           /\ p[1].orgId = p[2].orgId
           /\ p[1].folderUID = p[2].folderUID}

NameOf(r) ==
    LET k == CHOOSE n \in 1..Len(preStore.alert) : preStore.alert[n].id = r.alertId
    IN  preStore.alert[k].name

(* C15: after a committed forward run, of two rules inserted for legacy
   alerts of the same name in one organisation and folder, the first has the
   legacy name as its title and the second has the legacy name followed by
   its own UID. *)
C15_SameNameTitles ==
    ForwardCommitted =>
        \A p \in SameNamePairs :
           /\ p[1].title = <<NameOf(p[1])>>
           /\ p[2].title = <<NameOf(p[2]), p[2].uid>>

(* the same, for runs in which no rule insert failed with a store error and
   which found no rule in the store: both rules are persisted, the first
   under the legacy name and the second under the name and its UID *)
C15_WithoutInsertFault ==
    (ForwardCommitted /\ ~insertFaulted /\ preStore.alert_rule = {}) =>
        \A p \in SameNamePairs :
           /\ p[1].title = <<NameOf(p[1])>>
           /\ p[2].title = <<NameOf(p[2]), p[2].uid>>
           /\ p[1] # p[2]

(* a committed run without insert faults that inserted such a pair *)
C15_Pair ==
    /\ ForwardCommitted /\ ~insertFaulted /\ preStore.alert_rule = {}
    /\ SameNamePairs # {}

(* a committed run in which the first of the pair was renamed *)
C15_FirstRenamed ==
    /\ ForwardCommitted
    /\ \E p \in SameNamePairs :
          p[1].title = <<NameOf(p[1]), p[1].uid>> /\ p[2].title = <<NameOf(p[2])>>


IsPrefix(s, t) == Len(s) <= Len(t) /\ s = SubSeq(t, 1, Len(s))

(* C16: the deletes a rollback has issued so far are a prefix of the order
   rule versions, rules, ACL entries of synthesized folders, synthesized
   folders, alert configuration records, alert instance records. *)
C16_DeleteOrder ==
    IsPrefix(deleted,
             <<"alert_rule_version", "alert_rule", "dashboard_acl", "dashboard",
               "alert_configuration", "alert_instance">>)

(* the order the statements of rmMigration.Exec are issued in: the rules are
   deleted before their versions, the other four as stated *)
C16_OrderOfTheCode ==
    IsPrefix(deleted,
             <<"alert_rule", "alert_rule_version", "dashboard_acl", "dashboard",
               "alert_configuration", "alert_instance">>)

(* a rollback that issued all six deletes *)
C16_AllDeleted == registered = "rm" /\ Len(deleted) = 6


(* a store with no rules, no versions, no synthesized folders and empty
   alerting tables *)
NothingMigrated(s) ==
    /\ s.alert_rule = {}
    /\ s.alert_rule_version = {}
    /\ CreatedByMigration(s) = {}
    /\ s.alert_configuration = {}
    /\ s.alert_instance = {}

(* C17: a committed rollback leaves the store rmMigration.Exec computes from
   the store it started on; on a store with nothing migrated that is the
   same store, and executing the rollback again on its result, or on any
   store the program reaches, changes nothing more. *)
C17_RollbackIdempotent ==
    /\ RollbackCommitted =>
          /\ store = RmExec(preStore)
          /\ RmExec(store) = store
          /\ NothingMigrated(preStore) => store = preStore
    /\ RmExec(RmExec(sess)) = RmExec(sess)
    /\ NothingMigrated(sess) => RmExec(sess) = sess

(* a rollback committed on a store with nothing migrated that holds ACL rows
   and folders of other origin *)
C17_Witness ==
    /\ RollbackCommitted
    /\ NothingMigrated(preStore)
    /\ preStore.acl # {}
    /\ \E d \in preStore.dashboard : d.isFolder
    /\ store = preStore

(* a rollback committed on a store holding rules, synthesized folders and
   their ACL rows *)
C17_Removed ==
    /\ RollbackCommitted
    /\ preStore.alert_rule # {}
    /\ \E d \in CreatedByMigration(preStore) : AclEntries(preStore, d.id) # {}
    /\ NothingMigrated(store)


(* the forward run has returned from the step named step *)
ReturnedFrom(step) == registered = "fwd" /\ pc = "ret" /\ failedAt = step

(* C18: when the condition of a legacy alert names a datasource with no
   entry in the datasource map, the forward run returns the MigrationError
   of that alert wrapping the unresolved-datasource cause, and has inserted
   nothing. *)
C18_UnresolvedDatasource ==
    ReturnedFrom("translate") =>
        /\ <<da.orgId, da.dsId>> \notin DOMAIN dsIDMap
        /\ err = MigrationError(da.id, "UnresolvedDatasourceError")
        /\ i = 1 => sess = store

(* what the code returns there: the translator's error as it is, with no
   alert id; the run then aborts and the store is as it was *)
C18_RawErrorReturned ==
    [][ReturnedFrom("translate") =>
          /\ <<da.orgId, da.dsId>> \notin DOMAIN dsIDMap
          /\ err = RawError("UnresolvedDatasourceError")
          /\ runState' = "Aborted"
          /\ store' = store /\ store = preStore]_vars

(* the only legacy alert names datasource 9 *)
C18_Reached == ReturnedFrom("translate") /\ Len(dashAlerts) = 1 /\ da.dsId = 9


(* the steps at which the processing of a legacy alert can fail *)
FailingSteps ==
    {"translate", "getDash", "getFolder", "createFolder", "getACL", "setACL",
     "general", "checkUid", "makeRule", "retry", "version"}

(* the steps whose error lines 109-191 wrap in MigrationError *)
WrappedSteps ==
    {"getDash", "getFolder", "createFolder", "getACL", "setACL", "general",
     "checkUid"}

(* C19: every error the forward run returns from a step of a legacy alert
   is the MigrationError of the alert being processed. *)
C19_AlwaysMigrationError ==
    (registered = "fwd" /\ pc = "ret" /\ failedAt \in FailingSteps) =>
        /\ err.type = "MigrationError"
        /\ err.AlertId = da.id

(* what the code returns: a MigrationError of the alert from the dashboard
   lookup up to the folder identifier check, and the error as it is from
   condition translation, rule construction, the second rule insert and the
   version insert *)
C19_WrappedAndRaw ==
    (registered = "fwd" /\ pc = "ret" /\ failedAt # "") =>
        /\ failedAt \in FailingSteps \cup {"slurp"}
        /\ failedAt \in WrappedSteps =>
              err.type = "MigrationError" /\ err.AlertId = da.id /\ da.id # 0
        /\ failedAt \notin WrappedSteps => err.type = "error"

(* the version insert of the second alert failed *)
C19_Reached ==
    /\ registered = "fwd" /\ pc = "ret" /\ failedAt = "version" /\ i = 2
    /\ err = RawError("StoreError")


(* the legacy alerts that have a rule of this run in the session *)
WithRule ==
    {r.alertId : r \in sess.alert_rule \ preStore.alert_rule}

(* the legacy alerts that have a rule of this run and its version in the
   session: all their steps are done *)
Completed ==
    {r.alertId : r \in {x \in sess.alert_rule \ preStore.alert_rule :
                          \E v \in sess.alert_rule_version :
                             v.ruleUID = x.uid /\ v.ruleOrgId = x.orgId}}

IdsUpTo(n) == {dashAlerts[k].id : k \in 1..n}

(* C20: the forward run processes the legacy alerts in load order. While it
   works on the alert at position i, the alerts before it, and no others,
   have completed all their steps, and no alert after it has a rule; the
   position advances by one, and only when the version of the alert at that
   position was inserted; once a step has failed the run executes no step
   of any alert and ends Aborted. *)
C20_LoadOrder ==
    [][/\ (ForwardRunning /\ pc \in AlertSteps) =>
            /\ dashAlerts = sess.alert
            /\ i \in 1..Len(dashAlerts)
            /\ da.id = dashAlerts[i].id
            /\ Completed = IdsUpTo(i - 1)
            /\ WithRule \subseteq IdsUpTo(i)
       /\ (ForwardRunning /\ pc \in AlertSteps /\ i' # i) =>
            /\ pc = "version"
            /\ i' = i + 1
            /\ Completed' = IdsUpTo(i)
       /\ (ForwardRunning /\ pc = "ret") =>
            /\ pc' \notin AlertSteps
            /\ err # NoErr => runState' = "Aborted" /\ store' = store
            /\ failedAt \in FailingSteps =>
                  /\ Completed = IdsUpTo(i - 1)
                  /\ WithRule \subseteq IdsUpTo(i)
            /\ err = NoErr =>
                  /\ i = Len(dashAlerts) + 1
                  /\ Completed = IdsUpTo(Len(dashAlerts))]_vars

(* the second of two alerts failed after the first completed all its steps *)
C20_Witness ==
    /\ ForwardRunning /\ pc = "ret" /\ failedAt \in FailingSteps
    /\ Len(dashAlerts) = 2 /\ i = 2
    /\ Completed = {dashAlerts[1].id}

(* the first of two alerts failed and the second was never begun *)
C20_FirstFailed ==
    /\ ForwardRunning /\ pc = "ret" /\ failedAt \in FailingSteps
    /\ Len(dashAlerts) = 2 /\ i = 1
    /\ WithRule \subseteq {dashAlerts[1].id}


(* the folder id of the dashboard names no record, or a record that is not
   a folder *)
InvalidFolderReference(s, d) ==
    /\ d.folderId > 0
    /\ \A f \in s.dashboard : f.id = d.folderId => ~f.isFolder

(* the rules of this run in the session *)
SessionRules == sess.alert_rule \ preStore.alert_rule

(* C21: when the folder id of the alert's dashboard names no record or a
   record that is not a folder, the folder lookup returns the MigrationError
   of that alert and inserts nothing, the run then ends Aborted with the
   store as it was, and no rule of the run carries the UID of a record that
   is not a folder. *)
C21_InvalidFolderReference ==
    [][/\ (ForwardRunning /\ pc = "getFolder"
              /\ InvalidFolderReference(sess, dash)) =>
            /\ pc' = "ret" /\ failedAt' = "getFolder"
            /\ err'.type = "MigrationError" /\ err'.AlertId = da.id
            /\ sess' = sess
            /\ da.id \notin WithRule
       /\ ReturnedFrom("getFolder") =>
            runState' = "Aborted" /\ store' = store
       /\ (registered = "fwd" /\ runState \in {"Running", "Committed"}) =>
            \A r \in SessionRules :
               /\ \E f \in sess.dashboard : f.isFolder /\ f.uid = r.folderUID
               /\ \A d \in sess.dashboard : d.uid = r.folderUID => d.isFolder]_vars

(* the folder id of the dashboard names a regular dashboard *)
C21_Witness ==
    /\ ReturnedFrom("getFolder")
    /\ err = MigrationError(da.id, "not a folder")
    /\ dash.folderId = 3
    /\ da.id \notin WithRule

(* the folder id of the dashboard names no record *)
C21_NoRecord ==
    /\ ReturnedFrom("getFolder")
    /\ err = MigrationError(da.id, "folder not found")
    /\ dash.folderId = 9


(* the dashboard rows the lookup of lines 106-107 matches for the alert *)
MatchingDashboards(a) ==
    {d \in sess.dashboard :
        d.orgId = a.orgId /\ d.uid = Lookup(dashIDMap, <<a.orgId, a.dashboardId>>)}

(* C22: when the alert's (orgId, dashboardId) has no entry in the dashboard
   map, or the mapped UID matches no dashboard row of the organisation, the
   dashboard lookup returns the MigrationError of that alert, with no folder
   resolved or created. *)
C22_MissingDashboard ==
    [][(ForwardRunning /\ pc = "getDash"
          /\ \/ <<da.orgId, da.dashboardId>> \notin DOMAIN dashIDMap
             \/ MatchingDashboards(da) = {}) =>
            /\ pc' = "ret" /\ failedAt' = "getDash"
            /\ err'.type = "MigrationError" /\ err'.AlertId = da.id
            /\ sess' = sess
            /\ folder' = NoDashboard]_vars

(* what the code does: the lookup fails when no dashboard row of the
   organisation has the UID read from the map, the empty UID when the map
   has no entry; the run then ends Aborted with the store as it was *)
C22_NoMatchingRow ==
    [][/\ (ForwardRunning /\ pc = "getDash" /\ MatchingDashboards(da) = {}) =>
            /\ pc' = "ret" /\ failedAt' = "getDash"
            /\ err'.type = "MigrationError" /\ err'.AlertId = da.id
            /\ sess' = sess
            /\ folder' = NoDashboard
       /\ ReturnedFrom("getDash") =>
            runState' = "Aborted" /\ store' = store]_vars

(* the lookup failed for an alert whose dashboard has no entry in the map *)
C22_NotFound ==
    /\ ReturnedFrom("getDash")
    /\ err = MigrationError(da.id, "dashboard not found")
    /\ <<da.orgId, da.dashboardId>> \notin DOMAIN dashIDMap

(* an alert whose dashboard has no entry in the map is past the lookup, with
   a row of empty UID as its dashboard *)
C22_EmptyUidMatched ==
    /\ ForwardRunning /\ pc = "getFolder"
    /\ <<da.orgId, da.dashboardId>> \notin DOMAIN dashIDMap
    /\ dash.uid = EmptyUid /\ dash.id # da.dashboardId


(* Exec is sequential code and every call in it returns, and the migrator
   commits or rolls back once Exec has returned: a step of the run that can
   be taken is taken. *)
LiveSpec ==
    /\ Init
    /\ [][Next]_vars
    /\ WF_vars(Slurp \/ Translate \/ GetDashboard \/ GetFolder \/ CreateFolder
                 \/ GetPermissions \/ SetPermissions \/ GetOrCreateGeneralFolder
                 \/ MakeRule \/ InsertRule \/ RetryInsertRule \/ InsertVersion
                 \/ CommitRun \/ AbortRun)

ForwardEnded == registered = "fwd" /\ runState \in {"Committed", "Aborted"}

(* C23: a forward run that is Running ends Committed or Aborted; an ended
   run stays as it ended until the next startup; and the run ends Committed
   only from the return of nil after the last alert, with every legacy alert
   having its rule and version in the session. *)
C23_RunTerminates ==
    /\ ForwardRunning ~> ForwardEnded
    /\ [][/\ ForwardEnded =>
               \/ runState' = runState /\ pc' \notin AlertSteps \cup {"slurp", "ret"}
               \/ runState' = "NotStarted" /\ pc = "down"
          /\ (ForwardRunning /\ runState' # "Running") =>
               /\ pc = "ret"
               /\ runState' = IF err = NoErr THEN "Committed" ELSE "Aborted"
          /\ (ForwardRunning /\ runState' = "Committed") =>
               /\ i = Len(dashAlerts) + 1
               /\ dashAlerts = preStore.alert
               /\ Completed = IdsUpTo(Len(dashAlerts))]_vars

(* a run of two legacy alerts ended Committed *)
C23_Witness ==
    /\ ForwardCommitted
    /\ Len(preStore.alert) = 2
    /\ Cardinality(NewRules) = 2 /\ Cardinality(NewVersions) = 2

(* a run ended Aborted *)
C23_Aborted == registered = "fwd" /\ runState = "Aborted" /\ err # NoErr


(* what an observer outside the transaction sees of the tables the forward
   migration writes *)
Observed(s) ==
    [dashboard |-> s.dashboard, acl |-> s.acl, alert_rule |-> s.alert_rule,
     alert_rule_version |-> s.alert_rule_version]

(* the committed store holds, for every legacy alert, one rule of the run
   and the version of that rule *)
CompleteResult ==
    \A k \in 1..Len(preStore.alert) :
       \E r \in NewRules :
          /\ r.alertId = preStore.alert[k].id
          /\ \E v \in NewVersions : v.ruleUID = r.uid /\ v.ruleOrgId = r.orgId

(* C24: from the registration of the forward migration on, the committed
   store shows either the tables as they were before the run or, once the
   run is Committed, the result for every legacy alert; while the run is
   Running the committed store does not change, and it changes in one step,
   to the whole session, when the run commits. *)
C24_NoPartialCommit ==
    [][/\ registered = "fwd" =>
             \/ Observed(store) = Observed(preStore)
             \/ runState = "Committed" /\ CompleteResult
       /\ ForwardRunning =>
             /\ store = preStore
             /\ \/ store' = store
                \/ /\ runState' = "Committed"
                   /\ store' = sess
                   /\ CompleteResult']_vars

(* the run is Running with the rule, version, folder and ACL rows of its
   first alert in the session, and the committed store shows none of them *)
C24_Witness ==
    /\ ForwardRunning
    /\ Len(dashAlerts) = 2 /\ i = 2
    /\ Completed = {dashAlerts[1].id}
    /\ sess.dashboard # store.dashboard /\ sess.acl # store.acl
    /\ Observed(store) = Observed(preStore)


(* C25: a forward run that ends Committed puts the forward migration's
   entry in the migration log in the step that commits, and one that ends
   Aborted leaves the log without it; while the forward migration is
   registered and its run has ended, the log holds the entry exactly when
   the run is Committed; and the startup after an Aborted run, with the
   opt-in flag set and the toggle enabled, registers the forward migration
   again. *)
C25_LogIffCommitted ==
    [][/\ (ForwardRunning /\ runState' = "Committed") =>
             migTitle \in log' /\ migTitle \notin log
       /\ (ForwardRunning /\ runState' = "Aborted") =>
             migTitle \notin log' /\ log' = log
       /\ ForwardEnded =>
             (migTitle \in log <=> runState = "Committed")
       /\ (registered = "fwd" /\ runState = "Aborted"
              /\ pc' = "start" /\ optIn' /\ ngEnabled') =>
             /\ registered' = "fwd"
             /\ migTitle \notin log']_vars

(* a forward run has ended Aborted, the process is down with the opt-in flag
   set and the toggle enabled, and the log is without the entry *)
C25_Witness ==
    /\ registered = "fwd" /\ runState = "Aborted" /\ pc = "down"
    /\ optIn /\ ngEnabled
    /\ err # NoErr
    /\ migTitle \notin log
    /\ RegisterForward(optIn, ngEnabled, MigrationRun(log))

(* a forward run is Committed and in the log *)
C25_Recorded == ForwardCommitted /\ migTitle \in log /\ pc = "up"


(* the rows of s are all in t, as they are *)
RowsKept(s, t) ==
    /\ t.alert = s.alert
    /\ t.data_source = s.data_source
    /\ s.dashboard \subseteq t.dashboard
    /\ s.acl \subseteq t.acl
    /\ s.alert_rule \subseteq t.alert_rule
    /\ s.alert_rule_version \subseteq t.alert_rule_version
    /\ t.alert_configuration = s.alert_configuration
    /\ t.alert_instance = s.alert_instance

(* the dashboard and ACL rows t has and s has not are folders carrying the
   creator marker and ACL rows of those folders *)
OnlyNewFolders(s, t) ==
    /\ \A f \in t.dashboard \ s.dashboard :
          /\ f.isFolder /\ f.createdBy = FOLDER_CREATED_BY
          /\ \A d \in s.dashboard : d.id # f.id
    /\ \A x \in t.acl \ s.acl :
          \E f \in t.dashboard \ s.dashboard :
             f.id = x.dashboardId /\ f.orgId = x.orgId

(* C26: every step of the running forward run keeps every row of the
   session as it is and adds only folders, ACL rows of the folders the run
   added, rules and versions; the session always holds the rows the run
   began with; and when the run has ended, Committed or Aborted, the
   committed store holds every legacy alert, dashboard, folder and ACL row
   of the store before the run, unchanged. *)
C26_InputsUnchanged ==
    [][/\ (ForwardRunning /\ runState' = "Running") =>
             /\ RowsKept(sess, sess')
             /\ OnlyNewFolders(preStore, sess')
       /\ ForwardRunning =>
             /\ RowsKept(preStore, sess)
             /\ OnlyNewFolders(preStore, sess)
       /\ (ForwardRunning /\ runState' # "Running") =>
             /\ store'.alert = preStore.alert
             /\ preStore.dashboard \subseteq store'.dashboard
             /\ preStore.acl \subseteq store'.acl
             /\ OnlyNewFolders(preStore, store')
             /\ runState' = "Aborted" => store' = preStore]_vars

(* a run over a dashboard with ACL rows of its own, in a folder with ACL
   rows, ended Committed with a new folder and new ACL rows *)
C26_Witness ==
    /\ ForwardCommitted
    /\ preStore.alert # <<>>
    /\ preStore.acl # {}
    /\ store.dashboard # preStore.dashboard
    /\ store.acl # preStore.acl
    /\ preStore.dashboard \subseteq store.dashboard
    /\ preStore.acl \subseteq store.acl
    /\ store.alert = preStore.alert


RollbackSteps ==
    {"rm_rule", "rm_version", "rm_acl", "rm_folder", "rm_config", "rm_instance"}

(* C27: a startup registers the rollback only with the opt-in flag set, the
   toggle disabled and the forward migration's entry in the log it read; a
   startup with the toggle disabled and no forward entry registers nothing
   and leaves log and store as they are; the rollback's statements run only
   when the rollback is registered, and while nothing is registered and the
   toggle is disabled the store does not change. *)
C27_RollbackGate ==
    [][/\ (pc = "down" /\ registered' = "rm") =>
             optIn' /\ ~ngEnabled' /\ migTitle \in log
       /\ (pc = "down" /\ pc' = "start" /\ ~ngEnabled' /\ migTitle \notin log) =>
             registered' = "none" /\ log' = log /\ store' = store
       /\ registered = "rm" => optIn /\ ~ngEnabled
       /\ pc \in RollbackSteps => registered = "rm"
       /\ (registered = "none" /\ ~ngEnabled) =>
             store' = store /\ pc' \notin RollbackSteps]_vars

(* the rollback is registered at a startup that found the forward entry *)
C27_Witness ==
    /\ registered = "rm" /\ pc = "start" /\ runState = "NotStarted"
    /\ optIn /\ ~ngEnabled
    /\ store.alert_rule # {}

(* opt-in flag set, toggle disabled, no forward entry: nothing registered *)
C27_NothingRegistered ==
    /\ registered = "none" /\ pc = "start"
    /\ optIn /\ ~ngEnabled /\ migTitle \notin log


RollbackRunning == registered = "rm" /\ runState = "Running"

(* C28: a statement of the rollback that fails returns its error at once,
   with the session as it was before the statement; the run then ends
   Aborted and the committed store is the store as it was before the
   rollback began, with none of the deletes already issued applied. The
   rollback ends Committed only after all six statements, and the committed
   store is then what the six deletes leave. *)
C28_NoPartialTeardown ==
    [][/\ RollbackRunning => store = preStore /\ Len(deleted) <= 6
       /\ (RollbackRunning /\ pc \in RollbackSteps /\ pc' \notin RollbackSteps) =>
             /\ pc' = "ret"
             /\ \/ err' = NoErr /\ pc = "rm_instance" /\ Len(deleted') = 6
                \/ err' # NoErr /\ failedAt' = pc /\ sess' = sess
                     /\ deleted' = deleted
       /\ (RollbackRunning /\ pc = "ret" /\ err # NoErr) =>
             /\ runState' = "Aborted"
             /\ store' = store /\ store' = preStore /\ sess' = store'
       /\ (RollbackRunning /\ runState' = "Committed") =>
             /\ Len(deleted) = 6
             /\ store' = RmExec(preStore)]_vars

(* the fourth statement failed after three deletes that found rows, and the
   committed store still has every row *)
C28_Witness ==
    /\ registered = "rm" /\ runState = "Aborted" /\ failedAt = "rm_folder"
    /\ Len(deleted) = 3
    /\ store = preStore
    /\ store.alert_rule # {} /\ store.alert_rule_version # {}
    /\ \E d \in CreatedByMigration(store) : AclEntries(store, d.id) # {}


(* C29: a first rule insert that fails with a store I/O error returns an
   error from Exec at once, with no second attempt and with the rule's title
   and rule group as they were; only a uniqueness violation leads to the
   second attempt. *)
C29_OnlyUniqueViolationRetried ==
    [][/\ (ForwardRunning /\ pc = "insert" /\ insertErr' = "StoreError") =>
             /\ pc' = "ret" /\ err' # NoErr
             /\ rule' = rule
       /\ pc' = "retry" => insertErr' = "UniqueConstraintError"]_vars

(* what the code does: whatever the error of the first insert, the rule is
   renamed and inserted again *)
C29_AnyErrorRetried ==
    [][(ForwardRunning /\ pc = "insert" /\ insertErr' # "") =>
          /\ insertErr' \in {"StoreError", "UniqueConstraintError"}
          /\ pc' = "retry"
          /\ rule' = Suffixed(rule)
          /\ UNCHANGED <<err, sess>>]_vars

(* the first insert failed with a store I/O error, the second attempt
   succeeded and the rule is in the session under the suffixed title *)
C29_RetriedAfterStoreError ==
    /\ ForwardRunning /\ pc = "version" /\ attempts = 2
    /\ insertErr = "StoreError"
    /\ rule \in sess.alert_rule
    /\ rule.title = <<da.name, rule.uid>>
    /\ \A r \in sess.alert_rule : r.title # <<da.name>>


(* the second process's migrator has the lock *)
PeerActing == peer = "acting"

(* the forward pipeline body has executed in the process *)
BodyExecuted(state) == state \in {"Running", "Committed", "Aborted"}

(* C30 as stated: of two processes started together, the forward pipeline
   body executes in at most one, the second's migrator starts only when the
   first's is not running, and the second adds no rule to those of the
   first. *)
C30_BodyInAtMostOne ==
    [][/\ (peer = "waiting" /\ peer' = "acting") =>
             /\ runState # "Running"
             /\ pc \notin AlertSteps \cup {"slurp", "ret"}
       /\ (PeerActing' /\ BodyExecuted(firstRun')) =>
             /\ ~BodyExecuted(runState')
             /\ store'.alert_rule = preStore'.alert_rule]_vars

(* C30, what the code does: the second process's migrator starts only when
   the first's has ended; after a committed first run the second skips the
   body and leaves the rules and versions as the first committed them; the
   body executes in the second only after the first's run aborted, which
   left the store as it was, and a second run that commits then inserts
   one rule per legacy alert. *)
C30_CommitsInAtMostOne ==
    [][/\ (peer = "waiting" /\ peer' = "acting") =>
             /\ runState \in {"Committed", "Aborted"}
             /\ pc \in {"up", "down"}
             /\ runState = "Aborted" => store = preStore
             /\ runState = "Committed" => migTitle \in log
       /\ (PeerActing' /\ firstRun' = "Committed") =>
             /\ ~BodyExecuted(runState')
             /\ pc' \in {"start", "up", "down"}
             /\ store'.alert_rule = preStore'.alert_rule
             /\ store'.alert_rule_version = preStore'.alert_rule_version
       /\ (PeerActing' /\ BodyExecuted(runState')) => firstRun' = "Aborted"
       /\ (PeerActing' /\ runState' = "Committed") =>
             \A k \in 1..Len(store'.alert) :
                Cardinality({r \in store'.alert_rule \ preStore'.alert_rule :
                               r.alertId = store'.alert[k].id}) = 1]_vars

(* the first process committed two rules; the second, started with it, has
   skipped the migration and is up *)
C30_Witness ==
    /\ PeerActing
    /\ firstRun = "Committed"
    /\ pc = "up"
    /\ runState = "NotStarted"
    /\ Len(store.alert) = 2
    /\ Cardinality(store.alert_rule) >= 2

(* the first process's run aborted and the second has committed the body *)
C30_SecondCommitted ==
    /\ PeerActing
    /\ firstRun = "Aborted"
    /\ runState = "Committed"
    /\ Cardinality(NewRules) = 2


(* C31: a startup registers at most one of the two migrations: the two
   cases of the switch exclude each other; a startup without the opt-in
   flag, or with the toggle enabled and the forward entry in the log, or
   with the toggle disabled and no forward entry, registers nothing and
   leaves the log as it is; a startup that registers the forward migration
   clears at most the rollback's entry, one that registers the rollback at
   most the forward entry. *)
C31_AtMostOneRegistered ==
    [][pc = "down" =>
         /\ ~(/\ RegisterForward(optIn', ngEnabled', MigrationRun(log))
              /\ RegisterRollback(optIn', ngEnabled', MigrationRun(log)))
         /\ (\/ ~optIn'
             \/ ngEnabled' /\ migTitle \in log
             \/ ~ngEnabled' /\ migTitle \notin log)
              => registered' = "none" /\ log' = log
         /\ registered' = "fwd" => log \ log' \subseteq {rmMigTitle}
         /\ registered' = "rm" => log \ log' \subseteq {migTitle}
         /\ log' \subseteq log
         /\ store' = store]_vars

(* both entries are in the log (the clear of the forward entry had failed),
   the toggle is enabled again: nothing is registered, nothing cleared *)
C31_Witness ==
    /\ pc = "start"
    /\ optIn /\ ngEnabled
    /\ log = {migTitle, rmMigTitle}
    /\ registered = "none"

(* a startup without the opt-in flag, the forward entry in the log *)
C31_NoOptIn ==
    /\ pc = "start"
    /\ ~optIn /\ ~ngEnabled
    /\ migTitle \in log
    /\ registered = "none"


(* every registered migration has committed and every clear has removed
   its entry, so far *)
CleanHistory == lastRun # "faulted"

(* C32: while every registered migration commits and every clear succeeds,
   the log never holds both entries; the forward migration is registered,
   begins and commits only when the migration committed last is not the
   forward migration, the rollback only when it is the forward migration;
   and a startup after a committed rollback with the opt-in flag set and
   the toggle enabled registers the forward migration, with no entry left
   in the log that would make the migrator skip it. *)
C32_Alternation ==
    [][/\ CleanHistory' => ~(migTitle \in log' /\ rmMigTitle \in log')
       /\ (CleanHistory' /\ pc = "down" /\ registered' = "fwd") =>
             lastRun \in {"", "rm"}
       /\ (CleanHistory' /\ pc = "down" /\ registered' = "rm") => lastRun = "fwd"
       /\ (CleanHistory' /\ runState' \in {"Running", "Committed"}
              /\ runState' # runState) =>
             IF registered = "fwd" THEN lastRun \in {"", "rm"} ELSE lastRun = "fwd"
       /\ (CleanHistory' /\ pc = "down" /\ pc' = "start" /\ lastRun = "rm"
              /\ optIn' /\ ngEnabled') =>
             /\ registered' = "fwd"
             /\ migTitle \notin log' /\ rmMigTitle \notin log']_vars

(* forward and rollback have committed in turn, and a startup with the
   toggle enabled again has registered the forward migration *)
C32_Witness ==
    /\ CleanHistory
    /\ lastRun = "rm"
    /\ commits = 2
    /\ pc = "start"
    /\ optIn /\ ngEnabled
    /\ registered = "fwd"
    /\ log = {}

(* the rollback has committed after a forward run that migrated two alerts *)
C32_RolledBack ==
    /\ CleanHistory
    /\ lastRun = "rm"
    /\ pc = "up"
    /\ log = {rmMigTitle}
    /\ Len(store.alert) = 2
    /\ store.alert_rule = {}


(* the rollback's run has failed on one of its delete statements *)
RollbackFailed == registered = "rm" /\ runState = "Aborted"

(* a forward run begins in this step *)
ForwardBegins == registered = "fwd" /\ runState = "NotStarted" /\ runState' = "Running"

(* C33 as stated: after a rollback run that failed on a delete statement
   the forward migration's entry is still in the log, the next startup with
   the opt-in flag set and the toggle disabled registers the rollback
   again, and no forward run begins over rules or synthesized folders that
   were never removed. *)
C33_FailedRollbackRetried ==
    [][/\ RollbackFailed' => migTitle \in log'
       /\ (RollbackFailed /\ pc = "down" /\ pc' = "start" /\ optIn' /\ ~ngEnabled')
             => registered' = "rm"
       /\ ForwardBegins =>
             /\ store.alert_rule = {}
             /\ CreatedByMigration(store) = {}]_vars

(* C33, what the code does: the startup that registers the rollback clears
   the forward entry before the rollback runs, and a failed rollback run
   leaves the log as the startup left it; so unless that clear failed, the
   entry is gone after a failed rollback, the next startup with the toggle
   disabled registers nothing, and one with the toggle enabled registers
   the forward migration. *)
C33_EntryClearedBeforeRollback ==
    [][/\ (pc = "down" /\ registered' = "rm" /\ ~ClearFailed(log', "rm"))
             => migTitle \notin log'
       /\ (registered = "rm" /\ (pc \in RollbackSteps \/ RollbackFailed'))
             => log' = log
       /\ (RollbackFailed /\ migTitle \notin log /\ pc = "down" /\ pc' = "start")
             => /\ ~ngEnabled' => registered' = "none"
                /\ (optIn' /\ ngEnabled') => registered' = "fwd"]_vars

(* a forward run is under way over the rules a failed rollback left *)
C33_ForwardOverLeftovers ==
    /\ ForwardRunning
    /\ lastRun = "faulted"
    /\ preStore.alert_rule # {}
    /\ deleted = <<>>
    /\ commits = 1


(* the folders and ACL rows the run has synthesized for the alert a *)
SynthesizedFor(a) ==
    {f \in sess.dashboard \ preStore.dashboard :
        f.createdBy = FOLDER_CREATED_BY /\ f.title = GetMigrationString(a)}

AclWrittenFor(a) ==
    {r \in sess.acl \ preStore.acl : \E f \in SynthesizedFor(a) : r.dashboardId = f.id}

(* C34: the parent folder is validated before the folder is decided, also
   for a dashboard with an ACL of its own: no step up to the validation
   writes a dashboard or ACL row; when the dashboard has hasAcl and a folder
   id that names no record or a record that is not a folder, the validation
   returns the MigrationError of the alert, with no folder synthesized and
   no ACL row written for the alert, and the run ends Aborted; and the steps
   that synthesize the folder and copy the ACL are reached only with a
   valid parent. *)
C34_ValidationBeforeDecision ==
    [][/\ (ForwardRunning /\ pc \in {"translate", "getDash", "getFolder"}) =>
             /\ sess'.dashboard = sess.dashboard
             /\ sess'.acl = sess.acl
       /\ (ForwardRunning /\ pc = "getFolder" /\ dash.hasAcl
              /\ InvalidFolderReference(sess, dash)) =>
             /\ pc' = "ret" /\ failedAt' = "getFolder"
             /\ err'.type = "MigrationError" /\ err'.AlertId = da.id
             /\ SynthesizedFor(da)' = {}
             /\ AclWrittenFor(da)' = {}
       /\ (ReturnedFrom("getFolder") /\ dash.hasAcl) =>
             /\ runState' = "Aborted"
             /\ store' = store
       /\ (ForwardRunning /\ pc \in {"createFolder", "getACL", "setACL"}) =>
             ~InvalidFolderReference(sess, dash)]_vars

(* the dashboard has an ACL of its own and its folder id names no record;
   the validation has failed for the second alert, after the first was
   given a folder *)
C34_Witness ==
    /\ ReturnedFrom("getFolder")
    /\ dash.hasAcl
    /\ dash.folderId = 9
    /\ err = MigrationError(da.id, "folder not found")
    /\ i = 2
    /\ sess.dashboard # preStore.dashboard
    /\ SynthesizedFor(da) = {}

(* the dashboard has an ACL of its own and its folder id names a dashboard *)
C34_NotAFolder ==
    /\ ReturnedFrom("getFolder")
    /\ dash.hasAcl
    /\ dash.folderId = 3
    /\ err = MigrationError(da.id, "not a folder")


(* the "Migrated ..." folders the run added *)
MigratedFolders ==
    {f \in store.dashboard \ preStore.dashboard :
        f.createdBy = FOLDER_CREATED_BY /\ f.title[1] = DASHBOARD_FOLDER}

(* the legacy alerts whose dashboard has an ACL of its own *)
AclAlerts ==
    {k \in 1..Len(preStore.alert) :
        \E d \in DashboardOf(preStore.alert[k]) : d.hasAcl}

(* the folders that hold the rule the run inserted for the alert at k *)
FoldersOfRule(k) ==
    {f \in store.dashboard :
        \E r \in NewRules : /\ r.alertId = preStore.alert[k].id
                            /\ f.orgId = r.orgId /\ f.uid = r.folderUID}

(* every legacy alert names a dashboard row of its organisation *)
EveryDashboardExists ==
    \A k \in 1..Len(preStore.alert) : DashboardOf(preStore.alert[k]) # {}

(* after a committed run: as many synthesized folders as alerts on
   dashboards with an ACL, the rule of each such alert in a synthesized
   folder of its own that holds the dashboard's effective ACL *)
FolderPerAclAlert ==
    /\ Cardinality(MigratedFolders) = Cardinality(AclAlerts)
    /\ \A k \in AclAlerts :
          /\ Cardinality(FoldersOfRule(k)) = 1
          /\ FoldersOfRule(k) \subseteq MigratedFolders
          /\ \A f \in FoldersOfRule(k) :
                \A d \in DashboardOf(preStore.alert[k]) :
                   AclEntries(store, f.id) = GetACL(store, d.orgId, d)
    /\ \A k1, k2 \in AclAlerts :
          k1 # k2 => FoldersOfRule(k1) \cap FoldersOfRule(k2) = {}

(* C35 as stated: after a committed forward run the number of synthesized
   "Migrated ..." folders equals the number of legacy alerts whose
   dashboard has hasACL true, and two alerts on one such dashboard have
   their rules in two different synthesized folders, each holding a copy of
   the dashboard's ACL. *)
C35_FolderPerAlert ==
    ForwardCommitted => FolderPerAclAlert

(* C35, what the code does: the same, when every legacy alert names a
   dashboard row of its organisation. *)
C35_FolderPerAlertOfKnownDashboards ==
    (ForwardCommitted /\ EveryDashboardExists) => FolderPerAclAlert

(* two alerts on the dashboard with an ACL, two synthesized folders *)
C35_TwoFolders ==
    /\ ForwardCommitted
    /\ EveryDashboardExists
    /\ Cardinality(AclAlerts) = 2
    /\ Cardinality(MigratedFolders) = 2
    /\ \E k1, k2 \in AclAlerts :
          /\ preStore.alert[k1].dashboardId = preStore.alert[k2].dashboardId
          /\ FoldersOfRule(k1) # FoldersOfRule(k2)


(* the versions of this run in the session *)
SessionVersions == sess.alert_rule_version \ preStore.alert_rule_version

(* the version v is a snapshot of the rule r *)
SnapshotOf(v, r) ==
    /\ v.ruleUID = r.uid
    /\ v.ruleOrgId = r.orgId
    /\ v.folderUID = r.folderUID
    /\ v.title = r.title
    /\ v.ruleGroup = r.ruleGroup

(* C36: every version the forward run inserts is a snapshot of a rule the
   run has inserted: UID, folder UID, title and rule group are those of the
   rule row, with the UID suffix on title and rule group when the rule went
   in on the second attempt; the version a step inserts is the snapshot of
   the rule of the alert in hand; and when the second insert of a rule
   fails, Exec returns with no version of that rule inserted. *)
C36_VersionSnapshotsRule ==
    [][/\ (registered' = "fwd" /\ runState' \in {"Running", "Committed"}) =>
             \A v \in SessionVersions' : \E r \in SessionRules' : SnapshotOf(v, r)
       /\ (ForwardRunning /\ pc = "version"
              /\ sess'.alert_rule_version # sess.alert_rule_version) =>
             \E r \in SessionRules :
                /\ r.alertId = da.id
                /\ sess'.alert_rule_version =
                      sess.alert_rule_version \cup {MakeVersion(r)}
                /\ SnapshotOf(MakeVersion(r), r)
                /\ attempts = 2 =>
                      /\ r.title = <<da.name, r.uid>>
                      /\ r.ruleGroup = <<da.name, r.uid>>
       /\ (ForwardRunning /\ pc = "retry" /\ pc' = "ret") =>
             /\ sess' = sess
             /\ err' # NoErr
             /\ \A v \in SessionVersions' : v.ruleUID # rule.uid]_vars

(* a committed run whose second rule collided with the first and went in
   under the suffixed title; its version carries the suffixed title and
   rule group *)
C36_Witness ==
    /\ ForwardCommitted
    /\ ~insertFaulted
    /\ \E r \in NewRules, v \in NewVersions :
          /\ Len(r.title) = 2
          /\ r.title[2] = r.uid
          /\ v.ruleUID = r.uid
          /\ v.title = r.title
          /\ v.ruleGroup = r.ruleGroup
          /\ v.folderUID = r.folderUID

(* the second insert of a rule has failed: no version of it *)
C36_FailedTwice ==
    /\ ReturnedFrom("retry")
    /\ attempts = 2
    /\ SessionVersions # {}
    /\ \A v \in SessionVersions : v.ruleUID # rule.uid

====
